---- MODULE Spec2Model ----
(***************************************************************************)
(* Model of the mav-agent mission core: the mission data model             *)
(* (core/mission.py), the MAVLink wire codec (core/mavlink_format.py),     *)
(* the transactional tool handlers (tools/tools.py, move_item_tool.py,     *)
(* add_rtl_tool.py) and the agent's request protocol (core/agent.py).      *)
(*                                                                         *)
(* Conventions                                                             *)
(*  - A Python Optional is None (the empty tuple) or Some(v) (a 1-tuple).  *)
(*  - MissionItem.heading holds a text or a number in Python; here it is a *)
(*    tagged record (HNone, HText(s), HNum(n)).                            *)
(*  - Floats are fixed point.  A coordinate is an integer count of         *)
(*    1/CoordSub of the wire unit (1e-7 degree), so int(lat * 1e7) is a    *)
(*    truncating division by CoordSub and x / 1e7 a multiplication.        *)
(*    Lengths (altitude, radius, wire z, param2, param3) count 1e-4 of     *)
(*    their unit, so 10 ft is 100000 and converts to 30480 (3.048 m).    *)
(*  - A Python list of object references is modelled inside a handler by   *)
(*    a local heap: the objects are the items of the list at call time,    *)
(*    named by their index; a shallow copy is a sequence of such names.    *)
(***************************************************************************)
EXTENDS Integers, Sequences, FiniteSets, TLC

VARIABLES
    \* ---- agent session (core/agent.py MAVLinkAgent) ----
    current_mode,    \* MAVLinkAgent.current_mode: "none" | "mission" | "command"
    chat_history,    \* MAVLinkAgent.chat_history: sequence of message kinds
    tools,           \* MAVLinkAgent.tools: "none" | "command" | "mission" tool set
    mission_manager, \* MAVLinkAgent.mission_manager: NoManager or a manager record
    cfg,             \* the configuration toggles read by the validator
    pc,              \* "idle" or "turn" (the agent graph is running, tools may be called)
    call,            \* the frame of the request in progress (plan / mode handler locals)
    last,            \* what the last finished operation was, saw and returned
    \* ---- wire codec (core/mavlink_format.py) ----
    cpc,             \* position of the conversion: "init", "encoded", "received", "decoded"
    cmission,        \* the Mission given to to_mavlink (its items)
    wire,            \* the list of MISSION_ITEM_INT dicts
    dmission,        \* the Mission produced by from_mavlink (its items)
    \* ---- HTTP server (server.py MAVLinkAgentServer) ----
    server,          \* the /api/plan requests in progress and the Mission objects
    \* ---- internal snapshot (core/mission.py to_dict / from_dict) ----
    snap,            \* a Mission, its dict and the Mission read back from the dict
    \* ---- HTTP interfaces (server.py /api/plan, gcs_tool/gcs_server.py) ----
    endpoint,        \* the agent server's /api/plan handler: its request and response
    gcs              \* the GCS server: the telemetry thread, its shared home position
                     \* and a /api/plan request

sessionVars == <<current_mode, chat_history, tools, mission_manager, cfg, pc, call, last>>
codecVars == <<cpc, cmission, wire, dmission>>
serverVars == <<server>>
snapshotVars == <<snap>>
ifaceVars == <<endpoint, gcs>>
vars == <<current_mode, chat_history, tools, mission_manager, cfg, pc, call, last,
          cpc, cmission, wire, dmission, server, snap, endpoint, gcs>>

(***************************************************************************)
(* Bounds of the model                                                     *)
(***************************************************************************)
MaxCodecLen == 2     \* longest mission converted to / from the wire
MaxItems == 3        \* longest mission a session holds
MaxChat == 5         \* longest chat history
CoordSub == 10       \* fixed-point sub-steps per wire coordinate unit

(***************************************************************************)
(* Optionals and small helpers                                             *)
(***************************************************************************)
None == <<>>
Some(v) == <<v>>
IsNone(o) == o = <<>>
Val(o) == o[1]
Opt(S) == {None} \cup {Some(v) : v \in S}
\* Python's `o or d` for an Optional number / string: None, 0 and "" are falsy
OrNum(o, d) == IF IsNone(o) \/ o = Some(0) THEN d ELSE Val(o)
OrStr(o, d) == IF IsNone(o) \/ o = Some("") THEN d ELSE Val(o)
\* Python's `o in [..]` for an Optional
In(o, S) == ~IsNone(o) /\ Val(o) \in S
Abs(n) == IF n < 0 THEN -n ELSE n
\* Python's int(): truncation toward zero
TruncDiv(a, b) == IF a >= 0 THEN a \div b ELSE -((-a) \div b)
Range(f) == {f[k] : k \in DOMAIN f}
SeqsUpTo(S, n) == UNION {[1..k -> S] : k \in 0..n}

HNone == [k |-> "none", s |-> "", n |-> 0]
HText(t) == [k |-> "text", s |-> t, n |-> 0]
HNum(d) == [k |-> "num", s |-> "", n |-> d]

(***************************************************************************)
(* core/mission.py: MissionItem                                            *)
(***************************************************************************)
CommandTypes == {"takeoff", "waypoint", "loiter", "rtl", "land", "survey"}

\* MissionItem(seq=..., command_type=...) with every other field at its default
MissionItem(seq, ct) ==
    [seq |-> seq, frame |-> 0, command |-> 0, current |-> 0,
     command_type |-> ct,
     latitude |-> None, longitude |-> None, mgrs |-> None, distance |-> None,
     heading |-> HNone, altitude |-> None, radius |-> None,
     altitude_units |-> None, distance_units |-> None, radius_units |-> None,
     relative_reference_frame |-> None,
     search_target |-> None, detection_behavior |-> None]

(***************************************************************************)
(* core/units.py: convert_to_meters (the file is not in src/; modelled     *)
(* from the specification: a linear conversion, an unknown unit is taken   *)
(* as meters already)                                                      *)
(***************************************************************************)
convert_to_meters(value, units) ==
    CASE units = "feet" -> (value * 3048) \div 10000
      [] units = "miles" -> value * 1609 + (value * 344) \div 1000
      [] units = "kilometers" -> value * 1000
      [] OTHER -> value

(***************************************************************************)
(* core/mavlink_format.py                                                  *)
(***************************************************************************)
MAV_CMD_NAV_WAYPOINT == 16
MAV_CMD_NAV_LOITER_UNLIM == 17
MAV_CMD_NAV_LOITER_TURNS == 18
MAV_CMD_NAV_LOITER_TIME == 19
MAV_CMD_NAV_RETURN_TO_LAUNCH == 20
MAV_CMD_NAV_LAND == 21
MAV_CMD_NAV_TAKEOFF == 22
MAV_CMD_DO_SET_ROI == 201
MAV_FRAME_GLOBAL_RELATIVE_ALT_INT == 6

\* the keys of COMMAND_TYPE_TO_MAVLINK in the order the dict literal lists them
CommandTypeKeys == <<"takeoff", "waypoint", "loiter", "rtl", "land", "survey">>

COMMAND_TYPE_TO_MAVLINK ==
    [t \in CommandTypes |->
        CASE t = "takeoff" -> MAV_CMD_NAV_TAKEOFF
          [] t = "waypoint" -> MAV_CMD_NAV_WAYPOINT
          [] t = "loiter" -> MAV_CMD_NAV_LOITER_UNLIM
          [] t = "rtl" -> MAV_CMD_NAV_RETURN_TO_LAUNCH
          [] t = "land" -> MAV_CMD_NAV_LAND
          [] t = "survey" -> MAV_CMD_NAV_WAYPOINT]

\* {v: k for k, v in COMMAND_TYPE_TO_MAVLINK.items()}: the comprehension walks
\* the keys in order and a later key overwrites an earlier one with the same value
MAVLINK_TO_COMMAND_TYPE ==
    [c \in Range(COMMAND_TYPE_TO_MAVLINK) |->
        LET ks == {i \in DOMAIN CommandTypeKeys :
                      COMMAND_TYPE_TO_MAVLINK[CommandTypeKeys[i]] = c}
            lastk == CHOOSE i \in ks : \A j \in ks : j <= i
        IN CommandTypeKeys[lastk]]

\* dict.get(key, default)
DictGet(d, key, default) == IF key \in DOMAIN d THEN d[key] ELSE default

\* COMMAND_TYPE_TO_MAVLINK.get(item.command_type, MAV_CMD_NAV_WAYPOINT)
EncodeCommand(ct) ==
    IF IsNone(ct) THEN MAV_CMD_NAV_WAYPOINT
    ELSE DictGet(COMMAND_TYPE_TO_MAVLINK, Val(ct), MAV_CMD_NAV_WAYPOINT)

\* a decoder whose default is the table's first command type
DecodeCommandDefaultTakeoff(command) == DictGet(MAVLINK_TO_COMMAND_TYPE, command, "takeoff")

\* MAVLINK_TO_COMMAND_TYPE.get(command, 'waypoint')
DecodeCommand(command) == DictGet(MAVLINK_TO_COMMAND_TYPE, command, "waypoint")

\* an encoder that scales by 1e6
EncodeCoordinateE6(c) == TruncDiv(OrNum(c, 0), CoordSub * 10)

\* an encoder that marks an absent coordinate on the wire instead of sending 0
EncodeCoordinateMarksAbsent(c) == IF IsNone(c) THEN -1 ELSE TruncDiv(Val(c), CoordSub)

\* int((coordinate or 0) * 1e7)
EncodeCoordinate(c) == TruncDiv(OrNum(c, 0), CoordSub)

\* mav_item['x'] / 1e7
DecodeCoordinate(x) == x * CoordSub

\* an encoder that writes the altitude without converting it
EncodeAltitudeUnconverted(item) == OrNum(item.altitude, 0)

\* convert_to_meters(item.altitude or 0, item.altitude_units or 'feet')
EncodeAltitude(item) ==
    convert_to_meters(OrNum(item.altitude, 0), OrStr(item.altitude_units, "feet"))

\* heading_value = item.heading or 0; 0.0 for a str, float(heading_value) otherwise
\* the yaw slot left at its 0.0 default whatever the heading
EncodeYawDropped(h) == 0

EncodeYaw(h) == IF h.k = "num" THEN h.n ELSE 0

mission_item_to_mavlink(item) ==
    LET ct == item.command_type
        loiterRadius == convert_to_meters(OrNum(item.radius, 0),
                                          OrStr(item.radius_units, "feet"))
    IN [seq |-> item.seq,
        frame |-> MAV_FRAME_GLOBAL_RELATIVE_ALT_INT,
        command |-> EncodeCommand(ct),
        current |-> item.current,
        autocontinue |-> 1,
        param1 |-> 0,
        param2 |-> IF In(ct, {"waypoint", "survey"}) THEN 20000 ELSE 0,
        param3 |-> IF ct = Some("loiter") THEN loiterRadius ELSE 0,
        param4 |-> IF In(ct, {"takeoff", "waypoint", "survey"})
                   THEN EncodeYaw(item.heading) ELSE 0,
        x |-> EncodeCoordinate(item.latitude),
        y |-> EncodeCoordinate(item.longitude),
        z |-> EncodeAltitude(item)]

mission_item_from_mavlink(mav_item) ==
    LET command_type == DecodeCommand(mav_item.command)
        base == [MissionItem(mav_item.seq, Some(command_type)) EXCEPT
                    !.frame = mav_item.frame,
                    !.command = mav_item.command,
                    !.current = mav_item.current,
                    !.latitude = Some(DecodeCoordinate(mav_item.x)),
                    !.longitude = Some(DecodeCoordinate(mav_item.y)),
                    !.altitude = Some(mav_item.z),
                    !.altitude_units = Some("meters")]
    IN CASE command_type = "takeoff" ->
                [base EXCEPT !.heading = HNum(mav_item.param4)]
         [] command_type = "loiter" ->
                [base EXCEPT !.radius = Some(mav_item.param3),
                             !.radius_units = Some("meters")]
         [] command_type \in {"waypoint", "survey"} ->
                [base EXCEPT !.heading = HNum(mav_item.param4)]
         [] OTHER -> base

mission_to_mavlink(items) == [i \in DOMAIN items |-> mission_item_to_mavlink(items[i])]

mission_from_mavlink(mav_items) ==
    [i \in DOMAIN mav_items |-> mission_item_from_mavlink(mav_items[i])]

(***************************************************************************)
(* config/settings.py: AgentConfig.  The values come from a configuration  *)
(* file; the model fixes one altitude range (meters, fixed point) and one  *)
(* RTL default, and lets the validator's toggles vary (variable cfg).      *)
(***************************************************************************)
AgentSettings ==
    [min_altitude |-> 10000, max_altitude |-> 100000,
     rtl_default_altitude |-> 50000, rtl_altitude_units |-> "feet"]

\* auto_fix_positioning, auto_add_missing_takeoff, auto_add_missing_rtl
Configs ==
    {[auto_fix_positioning |-> f, auto_add_missing_takeoff |-> a, auto_add_missing_rtl |-> a] :
        f \in BOOLEAN, a \in BOOLEAN}

(***************************************************************************)
(* core/validator.py: MissionValidator (the file is not in src/; modelled  *)
(* from the specification, section 4.2).  A message is a record; an        *)
(* auto-fix note is one whose text starts with "Auto-fix:".  The validator *)
(* treats items as values: a repositioned or resolved item is a new value  *)
(* in the mission's list, never a write through a shared reference.        *)
(***************************************************************************)
ErrorMsg(rule, seq) == [kind |-> "error", rule |-> rule, seq |-> seq]
AutoFixMsg(rule) == [kind |-> "Auto-fix:", rule |-> rule, seq |-> 0]

Renumber(items) == [i \in DOMAIN items |-> [items[i] EXCEPT !.seq = i - 1]]
RemoveAt(items, i) == [k \in 1..(Len(items) - 1) |-> IF k < i THEN items[k] ELSE items[k + 1]]
MoveToFront(items, i) == Renumber(<<items[i]>> \o RemoveAt(items, i))
MoveToEnd(items, i) == Renumber(RemoveAt(items, i) \o <<items[i]>>)

TakeoffIdx(items) == {i \in DOMAIN items : items[i].command_type = Some("takeoff")}
EndIdx(items) == {i \in DOMAIN items : In(items[i].command_type, {"rtl", "land"})}
TheOne(S) == CHOOSE i \in S : TRUE

RequiresPosition(item) == In(item.command_type, {"waypoint", "loiter", "survey"})
HasLatLon(item) == ~IsNone(item.latitude) /\ ~IsNone(item.longitude)
HasRelative(item) == ~IsNone(item.distance) /\ item.heading.k = "text"

\* rule 1, takeoff: at most one, and first (strict mode)
TakeoffRule(items, c) ==
    LET T == TakeoffIdx(items) IN
    CASE Cardinality(T) > 1 ->
            [items |-> items, msgs |-> <<ErrorMsg("single takeoff", 0)>>]
      [] Cardinality(T) = 1 /\ TheOne(T) # 1 ->
            IF c.auto_fix_positioning
            THEN [items |-> MoveToFront(items, TheOne(T)),
                  msgs |-> <<AutoFixMsg("takeoff moved to first")>>]
            ELSE [items |-> items, msgs |-> <<ErrorMsg("takeoff must be first", 0)>>]
      [] OTHER -> [items |-> items, msgs |-> <<>>]

\* rule 1, RTL / land: at most one, and last (strict mode)
RtlRule(items, c) ==
    LET E == EndIdx(items) IN
    CASE Cardinality(E) > 1 ->
            [items |-> items, msgs |-> <<ErrorMsg("single rtl", 0)>>]
      [] Cardinality(E) = 1 /\ TheOne(E) # Len(items) ->
            IF c.auto_fix_positioning
            THEN [items |-> MoveToEnd(items, TheOne(E)),
                  msgs |-> <<AutoFixMsg("rtl moved to last")>>]
            ELSE [items |-> items, msgs |-> <<ErrorMsg("rtl must be last", 0)>>]
      [] OTHER -> [items |-> items, msgs |-> <<>>]

\* rule 2: a missing takeoff / RTL is signalled to the manager when the auto-add
\* toggle is on, and is otherwise an error in strict mode
CompletenessRule(items, c) ==
    (IF TakeoffIdx(items) = {} /\ ~c.auto_add_missing_takeoff
     THEN <<ErrorMsg("missing takeoff", 0)>> ELSE <<>>)
    \o (IF EndIdx(items) = {} /\ ~c.auto_add_missing_rtl
        THEN <<ErrorMsg("missing rtl", 0)>> ELSE <<>>)

\* rule 4: a relative item is resolved against home_position when one is given
ResolveAgainstHome(item, home) ==
    IF RequiresPosition(item) /\ ~HasLatLon(item) /\ HasRelative(item) /\ ~IsNone(home)
    THEN [item EXCEPT !.latitude = Some(Val(home)[1] + Val(item.distance) \div 10000),
                      !.longitude = Some(Val(home)[2]),
                      !.distance = None, !.heading = HNone,
                      !.distance_units = None, !.relative_reference_frame = None]
    ELSE item

Unresolved(item) ==
    RequiresPosition(item) /\ ~HasLatLon(item) /\ IsNone(item.mgrs)

\* rule 3: the altitude, in meters, is within the configured range
AltitudeOutOfRange(item) ==
    /\ ~IsNone(item.altitude)
    /\ LET m == convert_to_meters(Val(item.altitude), OrStr(item.altitude_units, "meters"))
       IN m < AgentSettings.min_altitude \/ m > AgentSettings.max_altitude

RECURSIVE ItemErrors(_, _)
ItemErrors(items, i) ==
    IF i > Len(items) THEN <<>>
    ELSE (IF Unresolved(items[i]) THEN <<ErrorMsg("unresolved position", items[i].seq)>> ELSE <<>>)
         \o (IF AltitudeOutOfRange(items[i])
             THEN <<ErrorMsg("altitude out of range", items[i].seq)>> ELSE <<>>)
         \o ItemErrors(items, i + 1)

IsError(m) == m.kind = "error"
\* validate(mission, mode, home_position) -> (is_valid, messages), and the
\* mission's items as the validator leaves them
Validate(items, mode, home, c) ==
    LET strict == mode = "mission"
        t == IF strict THEN TakeoffRule(items, c) ELSE [items |-> items, msgs |-> <<>>]
        r == IF strict THEN RtlRule(t.items, c) ELSE [items |-> t.items, msgs |-> <<>>]
        comp == IF strict THEN CompletenessRule(r.items, c) ELSE <<>>
        resolved == [i \in DOMAIN r.items |-> ResolveAgainstHome(r.items[i], home)]
        all == t.msgs \o r.msgs \o comp \o ItemErrors(resolved, 1)
        errors == SelectSeq(all, IsError)
        notes == SelectSeq(all, LAMBDA m : ~IsError(m))
    IN [is_valid |-> errors = <<>>, messages |-> errors \o notes, items |-> resolved]

(***************************************************************************)
(* core/manager.py: MissionManager (the file is not in src/; modelled from *)
(* the specification, section 4.3).  A manager is a record: its mode, and  *)
(* its live mission (has = FALSE when current_mission is None).            *)
(***************************************************************************)
NoManager == [exists |-> FALSE, mode |-> "none", has |-> FALSE, items |-> <<>>]
NewManager(mode) == [exists |-> TRUE, mode |-> mode, has |-> FALSE, items |-> <<>>]
create_mission(m) == [m EXCEPT !.has = TRUE, !.items = <<>>]
clear_mission(m) == [m EXCEPT !.has = FALSE, !.items = <<>>]
set_mode(m, mode) == [m EXCEPT !.mode = mode]
has_mission(m) == m.has

\* add_return_to_launch(altitude, altitude_units): the item appended to the live
\* mission, with the next seq and the configured default altitude when none is given
NewRtlItem(n, altitude, altitude_units) ==
    [MissionItem(n, Some("rtl")) EXCEPT
        !.altitude = IF IsNone(altitude) THEN Some(AgentSettings.rtl_default_altitude)
                     ELSE altitude,
        !.altitude_units = IF IsNone(altitude) THEN Some(AgentSettings.rtl_altitude_units)
                           ELSE Some(altitude_units)]

(***************************************************************************)
(* core/units.py: calculate_absolute_coordinates (not in src/; modelled    *)
(* from the specification, section 4.1).  One meter is one coordinate      *)
(* step.  A heading outside the vocabulary gives the (None, None)          *)
(* sentinel; a reference or distance that is not a number makes the        *)
(* arithmetic raise.                                                       *)
(***************************************************************************)
Headings == {"north", "south", "east", "west"}

calculate_absolute_coordinates(ref_lat, ref_lon, distance, heading, distance_units) ==
    IF IsNone(ref_lat) \/ IsNone(ref_lon) \/ distance.kind # "number"
    THEN [status |-> "raise", lat |-> None, lon |-> None]
    ELSE IF heading \notin Headings
    THEN [status |-> "ok", lat |-> None, lon |-> None]
    ELSE LET d == convert_to_meters(distance.value, distance_units) \div 10000 IN
         [status |-> "ok",
          lat |-> Some(Val(ref_lat) + (CASE heading = "north" -> d
                                         [] heading = "south" -> -d
                                         [] OTHER -> 0)),
          lon |-> Some(Val(ref_lon) + (CASE heading = "east" -> d
                                         [] heading = "west" -> -d
                                         [] OTHER -> 0))]

(***************************************************************************)
(* tools/tools.py: shared helpers of the tool handlers                     *)
(***************************************************************************)
\* A measurement argument after the field validator: None, a parsed
\* (value, units) tuple, or the raw text the parser did not recognise
NoArg == [kind |-> "none", value |-> 0, units |-> ""]
Parsed(v, u) == [kind |-> "tuple", value |-> v, units |-> u]
RawText == [kind |-> "raw", value |-> 0, units |-> ""]

\* unpack_measurement(value, default_units='meters'): the value part says whether
\* it is None, a number, or text
unpack_measurement(value) ==
    CASE value.kind = "tuple" -> [kind |-> "number", value |-> value.value, units |-> value.units]
      [] value.kind = "raw" -> [kind |-> "text", value |-> 0, units |-> "meters"]
      [] OTHER -> [kind |-> "none", value |-> 0, units |-> "meters"]

\* A coordinates argument after the field validator: None, a parsed (lat, lon)
\* tuple, or the raw text.  unpack_coordinates gives (None, None) for all but a tuple
NoCoords == [kind |-> "none", lat |-> 0, lon |-> 0]
ParsedCoords(la, lo) == [kind |-> "tuple", lat |-> la, lon |-> lo]
RawCoords == [kind |-> "raw", lat |-> 0, lon |-> 0]

unpack_coordinates(value) ==
    IF value.kind = "tuple"
    THEN [latitude |-> Some(value.lat), longitude |-> Some(value.lon)]
    ELSE [latitude |-> None, longitude |-> None]

\* _save_mission_state: a new list holding the same item objects.  The objects
\* of a handler's heap are named by their index in the list at call time
SaveMissionState(m) == IF m.has THEN [k \in 1..Len(m.items) |-> k] ELSE <<>>

\* a restore that does nothing: the mutated list stays
RestoreNothing(heap, saved_state) == heap

\* a restore that extends the list without clearing it first
RestoreWithoutClear(heap, saved_state) ==
    heap \o [k \in DOMAIN saved_state |-> heap[saved_state[k]]]

\* _restore_mission_state: mission.items.clear(); mission.items.extend(saved_state):
\* the saved names, read through the heap as it is now
RestoreMissionState(heap, saved_state) ==
    [k \in DOMAIN saved_state |-> heap[saved_state[k]]]

\* _validate_mission_after_action -> (is_valid, text, notes): the first message
\* of a failed validation, the auto-fix notes of a passed one
ValidateMissionAfterAction(m, c) ==
    IF ~m.has
    THEN [is_valid |-> TRUE, error |-> <<>>, notes |-> <<>>, items |-> m.items]
    ELSE LET v == Validate(m.items, m.mode, None, c) IN
         IF ~v.is_valid
         THEN [is_valid |-> FALSE,
               error |-> IF v.messages # <<>> THEN <<v.messages[1]>> ELSE <<>>,
               notes |-> <<>>, items |-> v.items]
         ELSE [is_valid |-> TRUE, error |-> <<>>,
               notes |-> SelectSeq(v.messages, LAMBDA x : x.kind = "Auto-fix:"),
               items |-> v.items]

\* What a handler gives back: the string it returns (its leading words, the
\* auto-fix notes it carries) or the exception that escapes it, and the
\* mission's items as the call leaves them
\* fixes are the 'Auto-fix:' messages the call's validation returned, reported the
\* item number a confirmation names
Returned(text, notes, items) ==
    [kind |-> "str", text |-> text, notes |-> notes, items |-> items,
     fixes |-> <<>>, reported |-> None]
Raised(items) ==
    [kind |-> "raise", text |-> "", notes |-> <<>>, items |-> items,
     fixes |-> <<>>, reported |-> None]

(***************************************************************************)
(* tools/move_item_tool.py: MoveItemTool._run.  The handler writes the     *)
(* fields of one item object; a stage is [item, changes, ret]: the object  *)
(* as written so far, the number of entries of changes_made, and the text  *)
(* of an early return (None while the handler goes on).                    *)
(***************************************************************************)
Stage(item, changes, ret) == [item |-> item, changes |-> changes, ret |-> ret]

\* a takeoff taken for an item that can be positioned
SupportsPositionWithTakeoff(item) ==
    In(item.command_type, {"takeoff", "waypoint", "loiter", "survey"})

supports_position(item) == In(item.command_type, {"waypoint", "loiter", "survey"})
supports_heading(item) == In(item.command_type, {"takeoff", "waypoint", "loiter", "survey"})

\* "Update GPS coordinates if provided"
MoveCoordinates(st, co) ==
    IF IsNone(co.latitude) \/ IsNone(co.longitude) THEN st
    ELSE IF supports_position(st.item)
    THEN Stage([st.item EXCEPT !.latitude = co.latitude, !.longitude = co.longitude,
                               !.distance = None, !.heading = HNone, !.mgrs = None,
                               !.relative_reference_frame = None],
               st.changes + 1, None)
    ELSE Stage(st.item, st.changes, Some("Error: Cannot modify GPS coordinates"))

\* "Update MGRS coordinate if provided"
MoveMgrs(st, mgrs) ==
    IF ~IsNone(st.ret) \/ IsNone(mgrs) THEN st
    ELSE IF supports_position(st.item)
    THEN Stage([st.item EXCEPT !.mgrs = mgrs, !.latitude = None, !.longitude = None,
                               !.distance = None, !.heading = HNone,
                               !.relative_reference_frame = None],
               st.changes + 1, None)
    ELSE Stage(st.item, st.changes, Some("Error: Cannot modify MGRS coordinates"))

\* the first item of any type that has coordinates
FirstPositionedCoordinates(items) ==
    LET T == {i \in DOMAIN items : HasLatLon(items[i])}
    IN IF T = {} THEN [lat |-> None, lon |-> None]
       ELSE LET f == CHOOSE i \in T : \A j \in T : i <= j
            IN [lat |-> items[f].latitude, lon |-> items[f].longitude]

\* a scan that starts at the front of the list
FindFirstWaypointCoordinates(items, current_index) ==
    LET P == {i \in 1..current_index :
                 /\ i \in DOMAIN items
                 /\ In(items[i].command_type, {"waypoint", "takeoff", "loiter", "survey"})
                 /\ HasLatLon(items[i])}
    IN IF P = {} THEN [lat |-> None, lon |-> None]
       ELSE LET l == CHOOSE i \in P : \A j \in P : i <= j
            IN [lat |-> items[l].latitude, lon |-> items[l].longitude]

\* get_origin_coordinates(): the first takeoff item that has coordinates
get_origin_coordinates(items) ==
    LET T == {i \in DOMAIN items : items[i].command_type = Some("takeoff") /\ HasLatLon(items[i])}
    IN IF T = {} THEN [lat |-> None, lon |-> None]
       ELSE LET f == CHOOSE i \in T : \A j \in T : i <= j
            IN [lat |-> items[f].latitude, lon |-> items[f].longitude]

\* _find_last_waypoint_coordinates(mission, current_index): current_index is
\* zero-based, so the items scanned are those at 1-based places 1..current_index
find_last_waypoint_coordinates(items, current_index) ==
    LET P == {i \in 1..current_index :
                 /\ i \in DOMAIN items
                 /\ In(items[i].command_type, {"waypoint", "takeoff", "loiter", "survey"})
                 /\ HasLatLon(items[i])}
    IN IF P = {} THEN [lat |-> None, lon |-> None]
       ELSE LET l == CHOOSE i \in P : \A j \in P : j <= i
            IN [lat |-> items[l].latitude, lon |-> items[l].longitude]

\* "Determine reference point": (ref_lat, ref_lon), or the error text returned
ReferencePoint(items, item, seq, rrf) ==
    LET origin == get_origin_coordinates(items)
        lastwp == find_last_waypoint_coordinates(items, seq - 1)
        WithOrigin(text) ==
            IF IsNone(origin.lat) \/ IsNone(origin.lon)
            THEN [lat |-> None, lon |-> None, err |-> Some(text)]
            ELSE [lat |-> origin.lat, lon |-> origin.lon, err |-> None]
    IN CASE rrf = Some("self") ->
                [lat |-> item.latitude, lon |-> item.longitude, err |-> None]
         [] rrf = Some("origin") -> WithOrigin("Error: Cannot use 'origin' reference")
         [] rrf = Some("last_waypoint") ->
                IF ~IsNone(lastwp.lat)
                THEN [lat |-> lastwp.lat, lon |-> lastwp.lon, err |-> None]
                ELSE WithOrigin("Error: Cannot find reference point")
         [] OTHER -> WithOrigin("Error: Cannot determine origin")

\* "Update relative positioning if provided".  items is the mission's list read
\* through the heap as the earlier stages left it
MoveRelative(st, items, seq, dm, heading, rrf) ==
    IF ~IsNone(st.ret) \/ dm.kind = "none" \/ IsNone(heading) THEN st
    ELSE IF ~supports_position(st.item)
    THEN Stage(st.item, st.changes, Some("Error: Cannot modify position"))
    ELSE LET ref == ReferencePoint(items, st.item, seq, rrf) IN
         IF ~IsNone(ref.err) THEN Stage(st.item, st.changes, ref.err)
         ELSE LET new == calculate_absolute_coordinates(ref.lat, ref.lon, dm, Val(heading), dm.units)
                  written == [st.item EXCEPT !.latitude = new.lat, !.longitude = new.lon,
                                            !.mgrs = None, !.distance = None, !.heading = HNone,
                                            !.distance_units = None,
                                            !.relative_reference_frame = None]
              IN CASE new.status = "raise" ->
                        Stage(st.item, st.changes,
                              Some("Error: Failed to calculate new position"))
                   \* formatting {new_lat:.6f} raises on the None sentinel
                   [] new.status = "ok" /\ IsNone(new.lat) ->
                        Stage(written, st.changes,
                              Some("Error: Failed to calculate new position"))
                   [] OTHER -> Stage(written, st.changes + 1, None)

\* "Update heading only": heading given and the distance argument is None
MoveHeading(st, distance, heading) ==
    IF ~IsNone(st.ret) \/ IsNone(heading) \/ distance.kind # "none" THEN st
    ELSE IF supports_heading(st.item)
    THEN Stage([st.item EXCEPT !.heading = HText(Val(heading))], st.changes + 1, None)
    ELSE Stage(st.item, st.changes, Some("Error: Cannot modify heading"))

\* the mission's list read through the heap in which object z now holds item
Through(items, z, item) == [items EXCEPT ![z] = item]

\* "Validate mission after modifications" and what follows
MoveValidate(m, c, saved_state, heap) ==
    LET v == ValidateMissionAfterAction([m EXCEPT !.items = heap], c) IN
    IF ~v.is_valid
    THEN Returned("Planning Error: ", v.error, RestoreMissionState(heap, saved_state))
    ELSE [Returned("Moved mission item", <<>>, v.items) EXCEPT !.fixes = v.notes]

MoveItemRun(m, c, seq, coordinates, mgrs, distance, heading, rrf) ==
    LET dm == unpack_measurement(distance)
        co == unpack_coordinates(coordinates)
    IN IF ~m.has \/ m.items = <<>>
       THEN Returned("Error: No mission items to move", <<>>, m.items)
       ELSE LET saved_state == SaveMissionState(m) IN
            IF seq < 1 \/ seq - 1 >= Len(m.items)
            THEN Returned("Error: Invalid sequence number", <<>>, m.items)
            ELSE LET a == MoveCoordinates(Stage(m.items[seq], 0, None), co)
                     b == MoveMgrs(a, mgrs)
                     r == MoveRelative(b, Through(m.items, seq, b.item), seq, dm, heading, rrf)
                     h == MoveHeading(r, distance, heading)
                     heap == Through(m.items, seq, h.item)
                 IN CASE ~IsNone(h.ret) -> Returned(Val(h.ret), <<>>, heap)
                      [] h.changes = 0 -> Returned("No position changes specified", <<>>, heap)
                      [] OTHER -> MoveValidate(m, c, saved_state, heap)

(***************************************************************************)
(* tools/add_rtl_tool.py: AddRTLTool._run                                  *)
(***************************************************************************)
\* the handler without its except clause: the manager's exception escapes
AddRtlNoExcept(m) == Raised(m.items)

\* "except Exception as e: return f'Error: {str(e)}'"
AddRtlExcept(m) == Returned("Error: ", <<>>, m.items)

\* "(Item {item.seq + 1})": the item number the confirmation reports
ReportedItemZeroBased(item) == item.seq
ReportedItem(item) == item.seq + 1

\* The heap of the call: the items at call time, then the new RTL object
AddRTLRun(m, c, altitude) ==
    LET am == unpack_measurement(altitude)
        saved_state == SaveMissionState(m)
    IN IF ~m.has
       \* add_return_to_launch raises with no live mission; the handler's
       \* except turns it into the returned text
       THEN AddRtlExcept(m)
       ELSE LET item == NewRtlItem(Len(m.items),
                                   IF am.kind = "number" THEN Some(am.value) ELSE None,
                                   am.units)
                heap == Append(m.items, item)
                v == ValidateMissionAfterAction([m EXCEPT !.items = heap], c)
            IN IF ~v.is_valid
               THEN Returned("Planning Error: ", v.error, RestoreMissionState(heap, saved_state))
               ELSE [Returned("Return to Launch command added to mission", v.notes, v.items)
                        EXCEPT !.fixes = v.notes, !.reported = Some(ReportedItem(item))]

(***************************************************************************)
(* The tool handlers as steps of a turn.  A handler runs while the agent   *)
(* graph runs (pc = "turn") and only if the tool set in use offers it      *)
(* (tools.py get_command_tools / get_mission_tools).                       *)
(***************************************************************************)
MaxCoord == 3        \* coordinates a session holds stay within -MaxCoord..MaxCoord

NoLast == [op |-> "none", kind |-> "none", text |-> "", notes |-> <<>>]

CoordOK(o) == IF IsNone(o) THEN TRUE ELSE Abs(Val(o)) <= MaxCoord
ItemsInBounds(items) ==
    /\ Len(items) <= MaxItems
    /\ \A i \in DOMAIN items : CoordOK(items[i].latitude) /\ CoordOK(items[i].longitude)

ToolReturns(op, r) ==
    /\ ItemsInBounds(r.items)
    /\ mission_manager' = [mission_manager EXCEPT !.items = r.items]
    /\ last' = [op |-> op, kind |-> r.kind, text |-> r.text, notes |-> r.notes]
    /\ UNCHANGED <<current_mode, chat_history, tools, cfg, pc, call>>
    /\ UNCHANGED codecVars
    /\ UNCHANGED ifaceVars
    /\ UNCHANGED serverVars
    /\ UNCHANGED snapshotVars

MoveItem(seq, coordinates, mgrs, distance, heading, rrf) ==
    /\ pc = "turn"
    /\ tools = "mission"
    /\ ToolReturns("move_item",
                   MoveItemRun(mission_manager, cfg, seq, coordinates, mgrs,
                               distance, heading, rrf))

AddRTL(altitude) ==
    /\ pc = "turn"
    /\ tools \in {"mission", "command"}
    /\ ToolReturns("add_rtl", AddRTLRun(mission_manager, cfg, altitude))

\* the arguments the model tries.  An argument the handler does not read in
\* a call (any argument when seq names no item, the reference frame when no
\* relative move is asked for) is tried at None only
SeqArgs == 0..(MaxItems + 1)
CoordArgs == {NoCoords, ParsedCoords(2, 2), RawCoords}
MgrsArgs == {None, Some("11SMT1234567890")}
DistanceArgs == {NoArg, Parsed(10000, "meters"), RawText}
HeadingArgs == {None, Some("north"), Some("up")}
FrameArgs == {None, Some("self"), Some("origin"), Some("last_waypoint"), Some("home")}
AltitudeArgs == {NoArg, Parsed(100000, "feet"), Parsed(600000, "feet")}

NamesItem(seq) == mission_manager.has /\ seq \in 1..Len(mission_manager.items)

MoveItemOver(CoordS, MgrsS, DistS, HeadS, FrameS) ==
    \E seq \in SeqArgs :
    \E coordinates \in (IF NamesItem(seq) THEN CoordS ELSE {NoCoords}),
       mgrs \in (IF NamesItem(seq) THEN MgrsS ELSE {None}),
       distance \in (IF NamesItem(seq) THEN DistS ELSE {NoArg}),
       heading \in (IF NamesItem(seq) THEN HeadS ELSE {None}) :
    \E rrf \in (IF distance.kind # "none" /\ ~IsNone(heading) THEN FrameS ELSE {None}) :
        MoveItem(seq, coordinates, mgrs, distance, heading, rrf)

AnyAddRTL == \E altitude \in AltitudeArgs : AddRTL(altitude)

(***************************************************************************)
(* SpecTools: the handlers against one manager.  A run starts inside a     *)
(* turn: in mission mode with an empty mission or one a request loaded, in *)
(* command mode with the new empty mission of the turn, or with no live    *)
(* mission at all (a handler called outside a turn).                       *)
(***************************************************************************)
Tk == [MissionItem(0, Some("takeoff")) EXCEPT
          !.latitude = Some(0), !.longitude = Some(0),
          !.altitude = Some(100000), !.altitude_units = Some("feet")]
TkNoPos == [Tk EXCEPT !.latitude = None, !.longitude = None]
Wp == [MissionItem(0, Some("waypoint")) EXCEPT
          !.latitude = Some(1), !.longitude = Some(1),
          !.altitude = Some(100000), !.altitude_units = Some("feet")]
\* a waypoint far above the configured maximum altitude
WpHigh == [Wp EXCEPT !.altitude = Some(600000)]
\* a waypoint that still carries the other geometry forms
WpMixed == [Wp EXCEPT !.mgrs = Some("11SMT0000000000"), !.distance = Some(10000),
                      !.heading = HText("east"), !.distance_units = Some("meters"),
                      !.relative_reference_frame = Some("origin")]
Lt == [MissionItem(0, Some("loiter")) EXCEPT
          !.latitude = Some(2), !.longitude = Some(1),
          !.altitude = Some(100000), !.altitude_units = Some("feet"),
          !.radius = Some(50000), !.radius_units = Some("feet")]
Rt == NewRtlItem(0, None, "meters")
Ld == [MissionItem(0, Some("land")) EXCEPT
          !.altitude = Some(100000), !.altitude_units = Some("feet")]

\* missions a request can load (seq numbered as the wire numbers them)
LoadableMissions ==
    {Renumber(q) :
        q \in {<<>>, <<Tk>>, <<Tk, Wp>>, <<Tk, Wp, Rt>>, <<Tk, WpHigh, Rt>>,
               <<Wp, Tk>>, <<Tk, Rt, Wp>>, <<Tk, Tk>>, <<Tk, Ld>>}}

\* no HTTP request is being handled and no telemetry thread runs
NoEndpoint == [pc |-> "idle"]
NoGcs == [pc |-> "idle"]
InitIdleIface == endpoint = NoEndpoint /\ gcs = NoGcs

\* no snapshot is being taken
NoSnapshot == [pc |-> "idle", mission |-> <<>>, dict |-> <<>>, restored |-> <<>>]
InitIdleSnapshot == snap = NoSnapshot

\* no request is being served
NoServer == [frames |-> <<>>, heap |-> <<>>, cur |-> 0, entry |-> <<>>]
InitIdleServer == server = NoServer

InitIdleCodec == cpc = "idle" /\ cmission = <<>> /\ wire = <<>> /\ dmission = <<>>

\* The frame of a request: the arguments of plan(), the three locals its finally
\* clause reads, whether original_mission is the very object the turn's tools
\* edit (alias), and the session as it was at entry (entry)
NoMission == [has |-> FALSE, items |-> <<>>]
NoEntry == [exists |-> FALSE, mode |-> "none", has |-> FALSE, items |-> <<>>,
            current_mode |-> "none", chat_history |-> <<>>]
NoCall == [api |-> "none", mode |-> "none", mission_state |-> None, home |-> None,
           original_mission |-> NoMission, alias |-> FALSE,
           original_history |-> <<>>, original_mode |-> "none", entry |-> NoEntry]

InitTools ==
    /\ cfg \in Configs
    /\ \E mode \in {"mission", "command"}, has \in BOOLEAN, items \in LoadableMissions :
        /\ (mode = "command" \/ ~has) => items = <<>>
        /\ mission_manager = [exists |-> TRUE, mode |-> mode, has |-> has, items |-> items]
        /\ tools = mode
        /\ current_mode = mode
    /\ chat_history = <<>>
    /\ pc = "turn"
    /\ call = NoCall
    /\ last = NoLast
    /\ InitIdleCodec
    /\ InitIdleServer
    /\ InitIdleSnapshot
    /\ InitIdleIface

ToolsMoveItem ==
    MoveItemOver({NoCoords, ParsedCoords(2, 2)}, MgrsArgs, {NoArg, Parsed(10000, "meters")},
                 {None, Some("north")}, {None, Some("self")})

NextTools == ToolsMoveItem \/ AnyAddRTL

SpecTools == InitTools /\ [][NextTools]_vars

(***************************************************************************)
(* SpecCall: one handler call, recorded.  The mission is drawn as in       *)
(* SpecTools; the call's arguments, the items before it, the validation's  *)
(* 'Auto-fix:' messages and the item number it reports are kept in last.   *)
(***************************************************************************)
MoveArgs(seq, coordinates, mgrs, distance, heading, rrf) ==
    [seq |-> seq, coordinates |-> coordinates, mgrs |-> mgrs, distance |-> distance,
     heading |-> heading, relative_reference_frame |-> rrf]
RtlArgs(altitude) == [altitude |-> altitude]

CallReturns(op, args, r) ==
    /\ last.op = "none"
    /\ mission_manager' = [mission_manager EXCEPT !.items = r.items]
    /\ last' = [op |-> op, kind |-> r.kind, text |-> r.text, notes |-> r.notes,
                fixes |-> r.fixes, reported |-> r.reported,
                args |-> args, before |-> mission_manager.items]
    /\ UNCHANGED <<current_mode, chat_history, tools, cfg, pc, call>>
    /\ UNCHANGED codecVars
    /\ UNCHANGED ifaceVars
    /\ UNCHANGED serverVars
    /\ UNCHANGED snapshotVars

MoveItemCall(seq, coordinates, mgrs, distance, heading, rrf) ==
    /\ pc = "turn"
    /\ tools = "mission"
    /\ CallReturns("move_item", MoveArgs(seq, coordinates, mgrs, distance, heading, rrf),
                   MoveItemRun(mission_manager, cfg, seq, coordinates, mgrs,
                               distance, heading, rrf))

AddRTLCall(altitude) ==
    /\ pc = "turn"
    /\ tools \in {"mission", "command"}
    /\ CallReturns("add_rtl", RtlArgs(altitude), AddRTLRun(mission_manager, cfg, altitude))

AnyMoveItemCall ==
    /\ last.op = "none"
    /\ \E seq \in SeqArgs :
       \E coordinates \in (IF NamesItem(seq) THEN CoordArgs ELSE {NoCoords}),
          mgrs \in (IF NamesItem(seq) THEN MgrsArgs ELSE {None}),
          distance \in (IF NamesItem(seq) THEN DistanceArgs ELSE {NoArg}),
          heading \in (IF NamesItem(seq) THEN HeadingArgs ELSE {None}) :
       \E rrf \in (IF distance.kind # "none" /\ ~IsNone(heading) THEN FrameArgs ELSE {None}) :
           MoveItemCall(seq, coordinates, mgrs, distance, heading, rrf)

AnyAddRTLCall == last.op = "none" /\ \E altitude \in AltitudeArgs : AddRTLCall(altitude)

CallMissions ==
    LoadableMissions
    \cup {Renumber(q) : q \in {<<Rt>>, <<TkNoPos, Wp>>, <<Wp, Lt>>, <<Tk, WpMixed>>,
                               <<Tk, Lt, Wp>>}}

InitCall ==
    /\ cfg \in Configs
    /\ \E mode \in {"mission", "command"}, has \in BOOLEAN, items \in CallMissions :
        /\ (mode = "command" \/ ~has) => items = <<>>
        /\ mission_manager = [exists |-> TRUE, mode |-> mode, has |-> has, items |-> items]
        /\ tools = mode
        /\ current_mode = mode
    /\ chat_history = <<>>
    /\ pc = "turn"
    /\ call = NoCall
    /\ last = NoLast
    /\ InitIdleCodec
    /\ InitIdleServer
    /\ InitIdleSnapshot
    /\ InitIdleIface

NextCall == AnyMoveItemCall \/ AnyAddRTLCall

SpecCall == InitCall /\ [][NextCall]_vars

(***************************************************************************)
(* core/agent.py: MAVLinkAgent.  A request is plan(), or a direct call of  *)
(* mission_mode() / command_mode().  Its handler runs up to the agent      *)
(* graph's invoke (a Begin action), the graph calls tools (the tool        *)
(* actions, pc = "turn"), and the rest of the handler runs when the graph  *)
(* returns or raises (TurnEnd).                                            *)
(***************************************************************************)
\* tools/tools.py: the tool sets, by the names of the tools
CommandToolsWithMove ==
    {"add_waypoint", "add_takeoff", "add_survey", "add_rtl", "add_loiter", "move_item"}

get_command_tools ==
    {"add_waypoint", "add_takeoff", "add_survey", "add_rtl", "add_loiter"}

get_mission_tools ==
    {"add_waypoint", "add_takeoff", "add_survey", "add_rtl", "add_loiter",
     "update_mission_item", "delete_mission_item", "reorder_item", "move_item"}

get_tools_for_mode(mode) ==
    IF mode = "command" THEN get_command_tools ELSE get_mission_tools

\* MAVLinkAgent.tools: the variable tools holds the mode whose set was loaded
OfferedTools == IF tools = "none" THEN {} ELSE get_tools_for_mode(tools)

\* _setup_tools_for_mode(mode): a new MissionManager and the mode's tool set
setup_tools_for_mode(mode) == [mission_manager |-> NewManager(mode), tools |-> mode]

\* mission_mode() up to the try block, were the mission created on every call
MissionPrologueAlwaysCreates(cm, ch, tl, mgr) ==
    LET setup == cm # "mission"
        m1 == IF setup THEN setup_tools_for_mode("mission").mission_manager ELSE mgr
    IN [current_mode |-> "mission",
        tools |-> IF setup THEN setup_tools_for_mode("mission").tools ELSE tl,
        mission_manager |-> create_mission(set_mode(m1, "mission")),
        chat_history |-> <<"system">>]

\* mission_mode() up to the try block, on the agent as (cm, ch, tl, mgr)
MissionPrologue(cm, ch, tl, mgr) ==
    LET setup == cm # "mission"
        m1 == IF setup THEN setup_tools_for_mode("mission").mission_manager ELSE mgr
        m2 == set_mode(m1, "mission")
        fresh == ~has_mission(m2)
    IN [current_mode |-> "mission",
        tools |-> IF setup THEN setup_tools_for_mode("mission").tools ELSE tl,
        mission_manager |-> IF fresh THEN create_mission(m2) ELSE m2,
        chat_history |-> IF fresh THEN <<"system">> ELSE ch]

\* command_mode() up to the try block, without its create_mission()
CommandPrologueNoCreate ==
    [current_mode |-> "command",
     tools |-> setup_tools_for_mode("command").tools,
     mission_manager |->
        set_mode(setup_tools_for_mode("command").mission_manager, "command"),
     chat_history |-> <<>>]

\* command_mode() up to the try block
CommandPrologue ==
    [current_mode |-> "command",
     tools |-> setup_tools_for_mode("command").tools,
     mission_manager |->
        create_mission(set_mode(setup_tools_for_mode("command").mission_manager, "command")),
     chat_history |-> <<>>]

EntryOf(mgr, cm, ch) ==
    [exists |-> mgr.exists, mode |-> mgr.mode, has |-> mgr.has, items |-> mgr.items,
     current_mode |-> cm, chat_history |-> ch]

Begins(api, mode, mission_state, home, p, alias) ==
    \* a mission turn that ends well appends the human and the AI message
    /\ Len(p.chat_history) + 2 <= MaxChat
    /\ current_mode' = p.current_mode
    /\ tools' = p.tools
    /\ mission_manager' = p.mission_manager
    /\ chat_history' = p.chat_history
    /\ call' = [api |-> api, mode |-> mode, mission_state |-> mission_state, home |-> home,
                original_mission |-> IF mission_manager.exists
                                     THEN [has |-> mission_manager.has,
                                           items |-> mission_manager.items]
                                     ELSE NoMission,
                alias |-> alias,
                original_history |-> chat_history,
                original_mode |-> current_mode,
                entry |-> EntryOf(mission_manager, current_mode, chat_history)]
    /\ pc' = "turn"
    /\ last' = NoLast
    /\ UNCHANGED cfg
    /\ UNCHANGED codecVars
    /\ UNCHANGED ifaceVars
    /\ UNCHANGED serverVars
    /\ UNCHANGED snapshotVars

\* plan(user_input, mode, mission_state, home_position) up to the graph's invoke
PlanBegin(mode, mission_state, home) ==
    /\ pc = "idle"
    /\ mode \in {"mission", "command"}
    /\ mission_manager.exists \/ IsNone(mission_state)
    /\ LET \* "self.mission_manager.current_mission = loaded_mission"
           loaded == IF IsNone(mission_state) THEN mission_manager
                     ELSE [mission_manager EXCEPT !.has = TRUE, !.items = Val(mission_state)]
           p == IF mode = "mission"
                THEN MissionPrologue(current_mode, chat_history, tools, loaded)
                ELSE CommandPrologue
           \* the tools edit original_mission itself when nothing was loaded and
           \* mission_mode kept the manager and its mission
           alias == /\ IsNone(mission_state)
                    /\ mode = "mission"
                    /\ current_mode = "mission"
                    /\ mission_manager.has
       IN Begins("plan", mode, mission_state, home, p, alias)

\* plan() that raises before a handler runs: mission_state given while
\* mission_manager is None (AttributeError at the load, and again in the finally
\* clause), or a mode that is neither 'mission' nor 'command' (ValueError; the
\* finally clause then restores the mission the load replaced)
PlanRaises(mode, mission_state) ==
    /\ pc = "idle"
    /\ (~mission_manager.exists /\ ~IsNone(mission_state)) \/ mode = "other"
    /\ last' = [op |-> "plan", kind |-> "raise",
                text |-> IF mission_manager.exists THEN "ValueError" ELSE "AttributeError",
                notes |-> <<>>]
    /\ UNCHANGED <<current_mode, chat_history, tools, mission_manager, cfg, pc, call>>
    /\ UNCHANGED codecVars
    /\ UNCHANGED ifaceVars
    /\ UNCHANGED serverVars
    /\ UNCHANGED snapshotVars

\* mission_mode(user_input) called directly
MissionModeBegin ==
    /\ pc = "idle"
    /\ Begins("mission_mode", "mission", None, None,
              MissionPrologue(current_mode, chat_history, tools, mission_manager), FALSE)

\* command_mode(user_input) called directly
CommandModeBegin ==
    /\ pc = "idle"
    /\ Begins("command_mode", "command", None, None, CommandPrologue, FALSE)

\* _enhance_with_deltas(result, old_mission, new_mission, home_position): the
\* seq-based diff of the two item lists (each taken as [] when its mission is
\* None), the items of new_mission as to_dict() copies them before the
\* validation runs, and the validation verdict
DeltasOf(old_items, new_items) ==
    [mission_items |-> new_items,
     added_items |-> {n \in Range(new_items) :
                        \A o \in Range(old_items) : o.seq # n.seq},
     deleted_items |-> {o \in Range(old_items) :
                          \A n \in Range(new_items) : n.seq # o.seq},
     modified_items |-> {n \in Range(new_items) :
                           \E o \in Range(old_items) : o.seq = n.seq /\ o # n}]

enhance_with_deltas(old_has, old_items, new_mgr, home, c) ==
    [deltas |-> DeltasOf(IF old_has THEN old_items ELSE <<>>,
                         IF new_mgr.has THEN new_mgr.items ELSE <<>>),
     valid |-> IF new_mgr.has
               THEN Validate(new_mgr.items, new_mgr.mode, home, c).is_valid
               ELSE TRUE]

\* The dict mission_mode / command_mode return.  On success it has the key
\* 'mission_state' with mission.to_dict() taken before command_mode clears the
\* mission (None were there no mission); the dict of the except clause has no
\* such key (has_state FALSE) and an 'error' key
ModeResult(mode, outcome, mgr) ==
    [mode |-> mode,
     success |-> outcome = "ok",
     has_state |-> outcome = "ok",
     mission_state |-> IF outcome = "ok" /\ mgr.has THEN Some(mgr.items) ELSE None]

\* The graph's invoke returns (outcome "ok") or raises; the handler's try block
\* or except clause runs, and for plan() _enhance_with_deltas and the finally
\* clause
TurnEnd(outcome) ==
    /\ pc = "turn"
    /\ LET handled ==
              IF call.mode = "mission"
              THEN [mgr |-> mission_manager,
                    chat |-> IF outcome = "ok" THEN chat_history \o <<"human", "ai">>
                             ELSE chat_history]
              ELSE [mgr |-> clear_mission(mission_manager), chat |-> <<>>]
           \* _enhance_with_deltas: validate_mission(home_position) when there is a mission
           enhanced ==
              IF handled.mgr.has
              THEN [handled.mgr EXCEPT
                       !.items = Validate(handled.mgr.items, handled.mgr.mode,
                                          call.home, cfg).items]
              ELSE handled.mgr
           \* finally: current_mission = original_mission
           restored ==
              [enhanced EXCEPT
                  !.has = call.original_mission.has,
                  !.items = IF call.alias THEN enhanced.items
                            ELSE call.original_mission.items]
       IN IF call.api = "plan"
          THEN /\ mission_manager' = restored
               /\ chat_history' = call.original_history
               /\ current_mode' = call.original_mode
          ELSE /\ mission_manager' = handled.mgr
               /\ chat_history' = handled.chat
               /\ current_mode' = current_mode
    /\ pc' = "idle"
    /\ call' = NoCall
    /\ last' = IF call.api = "plan"
                THEN [op |-> call.api, kind |-> "return", text |-> outcome, notes |-> <<>>,
                      result |->
                         LET new_mgr == IF call.mode = "mission" THEN mission_manager
                                        ELSE clear_mission(mission_manager)
                             e == enhance_with_deltas(
                                     call.original_mission.has,
                                     \* original_mission is the mission the tools edited
                                     IF call.alias THEN mission_manager.items
                                     ELSE call.original_mission.items,
                                     new_mgr, call.home, cfg)
                             r == ModeResult(call.mode, outcome, mission_manager)
                         IN [deltas |-> e.deltas, valid |-> e.valid, mode |-> r.mode,
                             success |-> r.success, mission_state |-> r.mission_state]]
                ELSE [op |-> call.api, kind |-> "return", text |-> outcome, notes |-> <<>>]
    /\ UNCHANGED <<tools, cfg>>
    /\ UNCHANGED codecVars
    /\ UNCHANGED ifaceVars
    /\ UNCHANGED serverVars
    /\ UNCHANGED snapshotVars

(***************************************************************************)
(* Spec: the agent's sessions, from construction                           *)
(***************************************************************************)
ModeArgs == {"mission", "command"}
MissionStateArgs ==
    {None} \cup {Some(Renumber(q)) : q \in {<<Tk, Wp>>, <<Tk, WpHigh, Rt>>}}
HomeArgs == {None, Some(<<0, 0>>)}

Init ==
    /\ current_mode = "none"
    /\ chat_history = <<>>
    /\ tools = "none"
    /\ mission_manager = NoManager
    /\ cfg \in Configs
    /\ pc = "idle"
    /\ call = NoCall
    /\ last = NoLast
    /\ InitIdleCodec
    /\ InitIdleServer
    /\ InitIdleSnapshot
    /\ InitIdleIface

AnyPlanBegin ==
    \E mode \in ModeArgs, mission_state \in MissionStateArgs, home \in HomeArgs :
        PlanBegin(mode, mission_state, home)

AnyPlanRaises ==
    \E mode \in ModeArgs \cup {"other"}, mission_state \in MissionStateArgs :
        PlanRaises(mode, mission_state)

SessionMoveItem ==
    MoveItemOver({NoCoords, ParsedCoords(2, 2)}, {None}, {NoArg}, {None, Some("north")}, {None})

SessionAddRTL == \E altitude \in {NoArg} : AddRTL(altitude)

AnyTurnEnd == \E outcome \in {"ok", "raise"} : TurnEnd(outcome)

Next ==
    \/ AnyPlanBegin
    \/ AnyPlanRaises
    \/ MissionModeBegin
    \/ CommandModeBegin
    \/ SessionMoveItem
    \/ SessionAddRTL
    \/ AnyTurnEnd

Spec == Init /\ [][Next]_vars

(***************************************************************************)
(* server.py: MAVLinkAgentServer.  run() starts Flask's server with its    *)
(* defaults, which serves each request on a thread of its own; every       *)
(* /api/plan request calls plan() on the one agent, and nothing serialises *)
(* them.  A request takes the steps of plan(): the save, the load and the  *)
(* mode handler up to the graph's invoke, the tool calls of its turn, and  *)
(* the rest of the handler with _enhance_with_deltas and the finally       *)
(* clause.  Steps of different requests interleave.                        *)
(*                                                                         *)
(* Mission objects are named by their index in server.heap (0 is None):    *)
(* original_mission and current_mission are references, and server.cur is  *)
(* the manager's current_mission.  mission_manager.has / .items are kept   *)
(* equal to what server.cur refers to.                                     *)
(***************************************************************************)
Requests == {1, 2}

IdleFrame ==
    [pc |-> "idle", mode |-> "none", mission_state |-> None, home |-> None,
     original_mission |-> 0, original_history |-> <<>>, original_mode |-> "none",
     stale |-> FALSE]

\* the manager mgr with the Mission object cur as its current_mission
ManagerOf(mgr, heap, cur) ==
    [mgr EXCEPT !.has = cur # 0, !.items = IF cur = 0 THEN <<>> ELSE heap[cur]]

\* /api/plan checks the request (server.py 112-133); plan() saves the session
ServeSave(r, mode, mission_state, home) ==
    /\ server.frames[r].pc = "idle"
    /\ mode \in {"mission", "command"}
    /\ IF IsNone(mission_state) THEN ~IsNone(home) ELSE TRUE
    /\ server' = [server EXCEPT !.frames[r] =
                     [pc |-> "saved", mode |-> mode, mission_state |-> mission_state,
                      home |-> home,
                      original_mission |-> IF mission_manager.exists THEN server.cur ELSE 0,
                      original_history |-> chat_history,
                      original_mode |-> current_mode,
                      stale |-> FALSE]]
    /\ UNCHANGED sessionVars
    /\ UNCHANGED codecVars
    /\ UNCHANGED ifaceVars
    /\ UNCHANGED snapshotVars

\* plan(): the load of mission_state and the mode handler up to the graph's
\* invoke.  With mission_state given and no manager yet the load raises, and
\* so does the finally clause.
ServeBegin(r) ==
    LET f == server.frames[r] IN
    /\ f.pc = "saved"
    /\ IF ~mission_manager.exists /\ ~IsNone(f.mission_state)
       THEN /\ server' = [server EXCEPT !.frames[r].pc = "done"]
            /\ UNCHANGED <<current_mode, chat_history, tools, mission_manager>>
       ELSE LET heap1 == IF IsNone(f.mission_state) THEN server.heap
                         ELSE Append(server.heap, Val(f.mission_state))
                cur1 == IF IsNone(f.mission_state) THEN server.cur ELSE Len(heap1)
                p == IF f.mode = "mission"
                     THEN MissionPrologue(current_mode, chat_history, tools,
                                          ManagerOf(mission_manager, heap1, cur1))
                     ELSE CommandPrologue
                \* _setup_tools_for_mode replaced the manager (and the tools)
                setup == f.mode = "command" \/ current_mode # "mission"
                \* create_mission() made a new Mission object
                fresh == setup \/ cur1 = 0
                heap2 == IF fresh THEN Append(heap1, <<>>) ELSE heap1
                cur2 == IF fresh THEN Len(heap2) ELSE cur1
            IN /\ Len(p.chat_history) + 2 <= MaxChat
               /\ current_mode' = p.current_mode
               /\ tools' = p.tools
               /\ chat_history' = p.chat_history
               /\ mission_manager' = ManagerOf(p.mission_manager, heap2, cur2)
               /\ server' = [server EXCEPT
                    !.heap = heap2,
                    !.cur = cur2,
                    !.frames = [q \in Requests |->
                       IF q = r THEN [f EXCEPT !.pc = "turn"]
                       ELSE IF setup /\ server.frames[q].pc = "turn"
                       \* the tools of q's graph keep the manager that was replaced
                       THEN [server.frames[q] EXCEPT !.stale = TRUE]
                       ELSE server.frames[q]]]
    /\ UNCHANGED <<cfg, pc, call, last>>
    /\ UNCHANGED codecVars
    /\ UNCHANGED ifaceVars
    /\ UNCHANGED snapshotVars

\* a tool call of the request's turn: add_rtl, on the manager the request's
\* tools were made with (a call on a replaced manager does not touch the agent)
ServeTool(r, altitude) ==
    /\ server.frames[r].pc = "turn"
    /\ ~server.frames[r].stale
    /\ LET res == AddRTLRun(mission_manager, cfg, altitude) IN
       /\ ItemsInBounds(res.items)
       /\ mission_manager' = [mission_manager EXCEPT !.items = res.items]
       /\ server' = IF server.cur = 0 THEN server
                    ELSE [server EXCEPT !.heap[server.cur] = res.items]
    /\ UNCHANGED <<current_mode, chat_history, tools, cfg, pc, call, last>>
    /\ UNCHANGED codecVars
    /\ UNCHANGED ifaceVars
    /\ UNCHANGED snapshotVars

\* the graph's invoke returns or raises: the rest of the mode handler (what it
\* appends to chat_history is replaced by the finally clause),
\* _enhance_with_deltas and the finally clause of plan()
ServeEnd(r) ==
    LET f == server.frames[r] IN
    /\ f.pc = "turn"
    /\ LET \* command_mode: clear_mission(); mission_mode keeps the mission
           curH == IF f.mode = "mission" THEN server.cur ELSE 0
           \* _enhance_with_deltas: validate_mission(home_position) on the mission
           heapE == IF curH = 0 THEN server.heap
                    ELSE [server.heap EXCEPT ![curH] =
                            Validate(server.heap[curH], mission_manager.mode,
                                     f.home, cfg).items]
       IN \* finally: current_mission, chat_history, current_mode = the saved ones
          /\ mission_manager' = ManagerOf(mission_manager, heapE, f.original_mission)
          /\ chat_history' = f.original_history
          /\ current_mode' = f.original_mode
          /\ server' = [server EXCEPT !.heap = heapE,
                                      !.cur = f.original_mission,
                                      !.frames[r].pc = "done"]
    /\ UNCHANGED <<tools, cfg, pc, call, last>>
    /\ UNCHANGED codecVars
    /\ UNCHANGED ifaceVars
    /\ UNCHANGED snapshotVars

\* the agent of a server: as constructed, or as earlier requests served one at
\* a time leave it (a manager of the last mode, no mission, no history)
InitServer ==
    /\ cfg \in Configs
    /\ chat_history = <<>>
    /\ current_mode = "none"
    /\ \/ tools = "none" /\ mission_manager = NoManager
       \/ \E mode \in {"mission", "command"} :
             tools = mode /\ mission_manager = NewManager(mode)
    /\ pc = "idle"
    /\ call = NoCall
    /\ last = NoLast
    /\ server = [frames |-> [r \in Requests |-> IdleFrame], heap |-> <<>>, cur |-> 0,
                 entry |-> EntryOf(mission_manager, current_mode, chat_history)]
    /\ InitIdleCodec
    /\ InitIdleSnapshot
    /\ InitIdleIface

AnyServeSave ==
    \E r \in Requests, mode \in ModeArgs, mission_state \in MissionStateArgs,
       home \in HomeArgs :
        ServeSave(r, mode, mission_state, home)

AnyServeBegin == \E r \in Requests : ServeBegin(r)

AnyServeTool == \E r \in Requests : \E altitude \in {NoArg} : ServeTool(r, altitude)

AnyServeEnd == \E r \in Requests : ServeEnd(r)

NextServer == AnyServeSave \/ AnyServeBegin \/ AnyServeTool \/ AnyServeEnd

SpecServer == InitServer /\ [][NextServer]_vars

(***************************************************************************)
(* core/mission.py: the internal snapshot, to_dict / from_dict.  A dict is *)
(* a function from its keys; data.get(key, default) is DictGet.  A         *)
(* datetime is a record (second, microsecond); its ISO text is the         *)
(* sequence of its printed parts, and isoformat() leaves the fractional    *)
(* part out when microsecond is 0.                                         *)
(***************************************************************************)
\* MissionItem.to_dict() that leaves the two search fields out
MissionItemToDictWithoutSearch(item) ==
    [seq |-> item.seq, frame |-> item.frame, command |-> item.command,
     current |-> item.current, command_type |-> item.command_type,
     latitude |-> item.latitude, longitude |-> item.longitude, mgrs |-> item.mgrs,
     distance |-> item.distance, heading |-> item.heading, altitude |-> item.altitude,
     radius |-> item.radius, altitude_units |-> item.altitude_units,
     distance_units |-> item.distance_units, radius_units |-> item.radius_units,
     relative_reference_frame |-> item.relative_reference_frame]

\* MissionItem.to_dict()
MissionItem_to_dict(item) ==
    [seq |-> item.seq, frame |-> item.frame, command |-> item.command,
     current |-> item.current, command_type |-> item.command_type,
     latitude |-> item.latitude, longitude |-> item.longitude, mgrs |-> item.mgrs,
     distance |-> item.distance, heading |-> item.heading, altitude |-> item.altitude,
     radius |-> item.radius, altitude_units |-> item.altitude_units,
     distance_units |-> item.distance_units, radius_units |-> item.radius_units,
     relative_reference_frame |-> item.relative_reference_frame,
     search_target |-> item.search_target,
     detection_behavior |-> item.detection_behavior]

\* MissionItem.from_dict(data)
MissionItem_from_dict(data) ==
    [seq |-> DictGet(data, "seq", 0),
     frame |-> DictGet(data, "frame", 0),
     command |-> DictGet(data, "command", 0),
     current |-> DictGet(data, "current", 0),
     command_type |-> DictGet(data, "command_type", None),
     latitude |-> DictGet(data, "latitude", None),
     longitude |-> DictGet(data, "longitude", None),
     mgrs |-> DictGet(data, "mgrs", None),
     distance |-> DictGet(data, "distance", None),
     heading |-> DictGet(data, "heading", HNone),
     altitude |-> DictGet(data, "altitude", None),
     radius |-> DictGet(data, "radius", None),
     altitude_units |-> DictGet(data, "altitude_units", None),
     distance_units |-> DictGet(data, "distance_units", None),
     radius_units |-> DictGet(data, "radius_units", None),
     relative_reference_frame |-> DictGet(data, "relative_reference_frame", None),
     search_target |-> DictGet(data, "search_target", None),
     detection_behavior |-> DictGet(data, "detection_behavior", None)]

\* datetime.isoformat() and datetime.fromisoformat(text)
isoformat(dt) ==
    IF dt.microsecond = 0 THEN <<dt.second>> ELSE <<dt.second, dt.microsecond>>
fromisoformat(text) ==
    [second |-> text[1], microsecond |-> IF Len(text) > 1 THEN text[2] ELSE 0]

\* Mission.to_dict()
Mission_to_dict(m) ==
    [items |-> [i \in DOMAIN m.items |-> MissionItem_to_dict(m.items[i])],
     created_at |-> isoformat(m.created_at),
     modified_at |-> isoformat(m.modified_at)]

\* Mission.from_dict(data); the defaults of data.get are the time of the call
Mission_from_dict(data, now) ==
    [items |-> LET ds == DictGet(data, "items", <<>>)
               IN [i \in DOMAIN ds |-> MissionItem_from_dict(ds[i])],
     created_at |-> fromisoformat(DictGet(data, "created_at", isoformat(now))),
     modified_at |-> fromisoformat(DictGet(data, "modified_at", isoformat(now)))]

(***************************************************************************)
(* SpecSnapshot: a Mission is written to its dict and read back            *)
(***************************************************************************)
\* items with every field in use, and items with the defaults
WpSearch == [WpMixed EXCEPT !.search_target = Some("red truck"),
                            !.detection_behavior = Some("tag_and_continue"),
                            !.current = 1, !.frame = 6, !.command = 16]
LtNumericHeading == [Lt EXCEPT !.heading = HNum(90), !.command = 17]
SnapshotItems == {Tk, TkNoPos, Wp, WpSearch, Lt, LtNumericHeading, Rt, MissionItem(0, None)}
SnapshotMissions == {Renumber(q) : q \in SeqsUpTo(SnapshotItems, MaxCodecLen)}
Datetimes == {[second |-> 1, microsecond |-> 0], [second |-> 1, microsecond |-> 250],
              [second |-> 2, microsecond |-> 0]}

InitSnapshot ==
    /\ current_mode = "none"
    /\ chat_history = <<>>
    /\ tools = "none"
    /\ mission_manager = NoManager
    /\ cfg \in {c \in Configs : c.auto_fix_positioning /\ c.auto_add_missing_rtl}
    /\ pc = "idle"
    /\ call = NoCall
    /\ last = NoLast
    /\ InitIdleCodec
    /\ InitIdleServer
    /\ InitIdleIface
    /\ \E items \in SnapshotMissions, created_at \in Datetimes, modified_at \in Datetimes :
          /\ created_at.second <= modified_at.second
          /\ snap = [pc |-> "init",
                     mission |-> [items |-> items, created_at |-> created_at,
                                  modified_at |-> modified_at],
                     dict |-> <<>>, restored |-> <<>>]

\* mission.to_dict()
ToDict ==
    /\ snap.pc = "init"
    /\ snap' = [snap EXCEPT !.pc = "dict", !.dict = Mission_to_dict(snap.mission)]
    /\ UNCHANGED sessionVars
    /\ UNCHANGED codecVars
    /\ UNCHANGED ifaceVars
    /\ UNCHANGED serverVars

\* Mission.from_dict(d), some time after the mission was last modified
FromDict ==
    /\ snap.pc = "dict"
    /\ snap' = [snap EXCEPT !.pc = "restored",
                            !.restored = Mission_from_dict(snap.dict,
                                                           [second |-> 3, microsecond |-> 7])]
    /\ UNCHANGED sessionVars
    /\ UNCHANGED codecVars
    /\ UNCHANGED ifaceVars
    /\ UNCHANGED serverVars

NextSnapshot == ToDict \/ FromDict

SpecSnapshot == InitSnapshot /\ [][NextSnapshot]_vars

(***************************************************************************)
(* SpecCodec: the wire codec.  A run either encodes a Mission and decodes  *)
(* the result (Mission.to_mavlink, then Mission.from_mavlink), or decodes  *)
(* a list of MISSION_ITEM_INT dicts received from a ground station         *)
(* (server.py /api/plan, mission_state).                                   *)
(***************************************************************************)
\* the geometry of an item given to the encoder: unresolved, or resolved at
\* coordinates of either sign that are, or are not, whole wire units
CodecGeometry ==
    {[latitude |-> None, longitude |-> None, altitude |-> None, altitude_units |-> None],
     [latitude |-> Some(13), longitude |-> Some(-25),
      altitude |-> Some(100000), altitude_units |-> Some("feet")],
     [latitude |-> Some(-7), longitude |-> Some(20),
      altitude |-> Some(50000), altitude_units |-> Some("meters")],
     [latitude |-> Some(-20), longitude |-> Some(4),
      altitude |-> Some(20), altitude_units |-> Some("kilometers")]}

\* items that carry what the per-type parameter slots hold: a numeric or a text
\* heading, a loiter radius in feet or in meters, the current flag set
CodecPayloadItems ==
    {[MissionItem(0, Some(ct)) EXCEPT
         !.latitude = Some(13), !.longitude = Some(-25),
         !.altitude = Some(100000), !.altitude_units = Some("feet"),
         !.heading = h, !.current = 1] :
        ct \in {"takeoff", "waypoint", "survey", "loiter"},
        h \in {HNum(90), HText("north")}}
    \cup
    {[MissionItem(0, Some("loiter")) EXCEPT
         !.latitude = Some(13), !.longitude = Some(-25),
         !.altitude = Some(100000), !.altitude_units = Some("feet"),
         !.radius = Some(ru[1]), !.radius_units = Some(ru[2])] :
        ru \in {<<50000, "feet">>, <<20000, "meters">>}}
    \cup
    \* an item that has a longitude and neither latitude nor altitude
    {[MissionItem(0, Some("rtl")) EXCEPT !.longitude = Some(20)]}

CodecItems ==
    {[MissionItem(0, Some(ct)) EXCEPT
         !.latitude = g.latitude, !.longitude = g.longitude,
         !.altitude = g.altitude, !.altitude_units = g.altitude_units] :
        ct \in CommandTypes, g \in CodecGeometry}
    \cup CodecPayloadItems

CodecMissions == {Renumber(q) : q \in SeqsUpTo(CodecItems, MaxCodecLen)}

\* command codes a ground station can send: those of the table and others
IncomingCommands ==
    {0, MAV_CMD_NAV_WAYPOINT, MAV_CMD_NAV_LOITER_UNLIM, MAV_CMD_NAV_LOITER_TURNS,
     MAV_CMD_NAV_LOITER_TIME, MAV_CMD_NAV_RETURN_TO_LAUNCH, MAV_CMD_NAV_LAND,
     MAV_CMD_NAV_TAKEOFF, MAV_CMD_DO_SET_ROI}

MavItem(seq, command, x, y, z) ==
    [seq |-> seq, frame |-> MAV_FRAME_GLOBAL_RELATIVE_ALT_INT, command |-> command,
     current |-> 0, autocontinue |-> 1, param1 |-> 0, param2 |-> 0, param3 |-> 0,
     param4 |-> 0, x |-> x, y |-> y, z |-> z]

IncomingItems ==
    {MavItem(0, c, g[1], g[2], g[3]) : c \in IncomingCommands,
                                       g \in {<<0, 0, 0>>, <<1, -2, 30480>>}}
    \cup {[MavItem(0, c, 1, -2, 30480) EXCEPT !.current = 1, !.param3 = 15240,
                                              !.param4 = 90] : c \in IncomingCommands}

IncomingLists ==
    {[i \in DOMAIN q |-> [q[i] EXCEPT !.seq = i - 1]] :
        q \in SeqsUpTo(IncomingItems, MaxCodecLen) \ {<<>>}}

InitIdleSession ==
    /\ current_mode = "none"
    /\ chat_history = <<>>
    /\ tools = "none"
    /\ mission_manager = NoManager
    /\ cfg \in {c \in Configs : c.auto_fix_positioning /\ c.auto_add_missing_rtl}
    /\ pc = "idle"
    /\ call = NoCall
    /\ last = NoLast

InitCodec ==
    /\ InitIdleSession
    /\ InitIdleServer
    /\ InitIdleSnapshot
    /\ InitIdleIface
    /\ dmission = <<>>
    /\ \/ cpc = "init" /\ cmission \in CodecMissions /\ wire = <<>>
       \/ cpc = "received" /\ cmission = <<>> /\ wire \in IncomingLists

\* Mission.to_mavlink()
ToMavlink ==
    /\ cpc = "init"
    /\ wire' = mission_to_mavlink(cmission)
    /\ cpc' = "encoded"
    /\ UNCHANGED <<cmission, dmission>>
    /\ UNCHANGED sessionVars
    /\ UNCHANGED serverVars
    /\ UNCHANGED snapshotVars
    /\ UNCHANGED ifaceVars

\* Mission.from_mavlink(mav_items): of the list just encoded (a round trip), or
\* of the list received
FromMavlink ==
    /\ cpc \in {"encoded", "received"}
    /\ dmission' = mission_from_mavlink(wire)
    /\ cpc' = IF cpc = "encoded" THEN "roundtrip" ELSE "decoded"
    /\ UNCHANGED <<cmission, wire>>
    /\ UNCHANGED sessionVars
    /\ UNCHANGED serverVars
    /\ UNCHANGED snapshotVars
    /\ UNCHANGED ifaceVars

NextCodec == ToMavlink \/ FromMavlink

SpecCodec == InitCodec /\ [][NextCodec]_vars

(***************************************************************************)
(* server.py: the /api/plan handler of MAVLinkAgentServer.  A request is   *)
(* its content type, its body and, for a JSON object, the keys the handler *)
(* reads; a response is its status and the keys of its JSON body.          *)
(***************************************************************************)
Request(is_json, body, user_input, mode, mission_state, home) ==
    [is_json |-> is_json, body |-> body, user_input |-> user_input, mode |-> mode,
     mission_state |-> mission_state, home_position |-> home]

\* request.get_json(): the parsed body; None for a JSON null; an HTTPException
\* where the body is not JSON.  Without a JSON content type the body is not
\* read: Flask returns None or raises, by its version
get_json(req) ==
    IF ~req.is_json THEN {"none", "raise"}
    ELSE CASE req.body = "object" -> {"data"}
           [] req.body = "null" -> {"none"}
           [] OTHER -> {"raise"}

ErrorResponse(status, error) ==
    [status |-> status, body |-> [success |-> FALSE, error |-> error]]
NoResponse == [status |-> 0, body |-> <<>>]

\* the checks before agent.plan is called: the response they return, or None
EarlyResponse(agent, req, json) ==
    IF ~agent THEN Some(ErrorResponse(500, "MAVLinkAgent not initialized"))
    ELSE IF json = "raise" THEN Some(ErrorResponse(500, "HTTPException"))
    ELSE IF json = "none" \/ ~req.user_input
    THEN Some(ErrorResponse(400, "Missing required field: user_input"))
    \* data.get('mode', 'mission')
    ELSE IF (IF IsNone(req.mode) THEN "mission" ELSE Val(req.mode))
            \notin {"mission", "command"}
    THEN Some(ErrorResponse(400, "Invalid mode"))
    ELSE IF (IsNone(req.mission_state) \/ req.mission_state = Some(<<>>))
            /\ IsNone(req.home_position)
    THEN Some(ErrorResponse(400, "Missing required data"))
    ELSE None

\* Mission.from_mavlink(mission_state).to_dict(), read by plan() with
\* Mission.from_dict
InternalState(mission_state) ==
    IF IsNone(mission_state) \/ mission_state = Some(<<>>) THEN None
    ELSE LET m == mission_from_mavlink(Val(mission_state))
         IN Some([i \in DOMAIN m |-> MissionItem_from_dict(MissionItem_to_dict(m[i]))])

\* the arguments of self.agent.plan(...)
PlanArgs(req) ==
    [mode |-> IF IsNone(req.mode) THEN "mission" ELSE Val(req.mode),
     mission_state |-> InternalState(req.mission_state),
     home_position |-> req.home_position]

\* the statements after agent.plan: the result's mission_state is replaced
\* by mission_items in wire format when the result has success and a
\* mission_state; jsonify(clean_result).  l is what plan() returned or raised
ResultResponse(l) ==
    IF l.kind = "raise"
    THEN IF l.text = "ValueError" THEN ErrorResponse(400, "Validation error")
         ELSE ErrorResponse(500, l.text)
    ELSE LET r == l.result
             dicts(items) == [i \in DOMAIN items |-> MissionItem_to_dict(items[i])]
             result == [success |-> r.success, mode |-> r.mode,
                        mission_items |-> dicts(r.deltas.mission_items),
                        added_items |-> {MissionItem_to_dict(x) : x \in r.deltas.added_items},
                        modified_items |->
                            {MissionItem_to_dict(x) : x \in r.deltas.modified_items},
                        deleted_items |->
                            {MissionItem_to_dict(x) : x \in r.deltas.deleted_items},
                        validation |-> r.valid]
                       @@ (IF r.success
                           THEN [mission_state |->
                                    IF IsNone(r.mission_state) THEN None
                                    ELSE Some(dicts(Val(r.mission_state)))]
                           ELSE [error |-> "exception"])
             convert == r.success /\ ~IsNone(r.mission_state)
             mission == [i \in DOMAIN Val(r.mission_state) |->
                            MissionItem_from_dict(result.mission_state[1][i])]
             kept == DOMAIN result \ {"mission_state"}
         IN [status |-> 200,
             body |-> IF convert
                      THEN [k \in kept |-> IF k = "mission_items"
                                           THEN mission_to_mavlink(mission)
                                           ELSE result[k]]
                      ELSE result]

(***************************************************************************)
(* SpecEndpoint: the agent server takes /api/plan requests one after the   *)
(* other on its one agent, newly constructed (or not constructed at all)   *)
(***************************************************************************)
WireStates ==
    {None, Some(<<>>),
     Some(<<MavItem(0, MAV_CMD_NAV_TAKEOFF, 0, 0, 30480),
            [MavItem(1, MAV_CMD_NAV_LOITER_UNLIM, 0, 0, 30480) EXCEPT !.param3 = 15240]>>)}

BodylessRequests ==
    {Request(j, b, FALSE, None, None, None) :
        j \in BOOLEAN, b \in {"absent", "null", "invalid"}}

ObjectRequests ==
    {Request(TRUE, "object", u, mode, ms, home) :
        u \in BOOLEAN, mode \in {None, Some("mission"), Some("command"), Some("other")},
        ms \in WireStates, home \in HomeArgs}

EndpointRequests == BodylessRequests \cup ObjectRequests

IdleEndpoint(agent) ==
    [pc |-> "idle", agent |-> agent, request |-> Request(FALSE, "absent", FALSE, None, None, None),
     args |-> PlanArgs(Request(FALSE, "absent", FALSE, None, None, None)),
     response |-> NoResponse]

InitEndpoint ==
    /\ current_mode = "none"
    /\ chat_history = <<>>
    /\ tools = "none"
    /\ mission_manager = NoManager
    /\ cfg \in {c \in Configs : c.auto_fix_positioning /\ c.auto_add_missing_rtl}
    /\ pc = "idle"
    /\ call = NoCall
    /\ last = NoLast
    /\ InitIdleCodec
    /\ InitIdleServer
    /\ InitIdleSnapshot
    /\ gcs = NoGcs
    /\ \E agent \in BOOLEAN : endpoint = IdleEndpoint(agent)

\* the handler up to the call of agent.plan: it returns a response, or goes on
EndpointReceive(req, json) ==
    /\ endpoint.pc \in {"idle", "responded"}
    /\ pc = "idle"
    /\ json \in get_json(req)
    /\ LET early == EarlyResponse(endpoint.agent, req, json) IN
       endpoint' = IF IsNone(early)
                   THEN [endpoint EXCEPT !.pc = "planning", !.request = req,
                                         !.args = PlanArgs(req), !.response = NoResponse]
                   ELSE [endpoint EXCEPT !.pc = "responded", !.request = req,
                                         !.args = PlanArgs(req), !.response = Val(early)]
    /\ last' = NoLast
    /\ UNCHANGED <<current_mode, chat_history, tools, mission_manager, cfg, pc, call>>
    /\ UNCHANGED codecVars
    /\ UNCHANGED serverVars
    /\ UNCHANGED snapshotVars
    /\ UNCHANGED <<gcs>>

AnyEndpointReceive ==
    \E req \in EndpointRequests : \E json \in {"data", "none", "raise"} :
        EndpointReceive(req, json)

\* agent.plan(...) is entered, or raises at once
EndpointPlanBegin ==
    /\ endpoint.pc = "planning"
    /\ last = NoLast
    /\ PlanBegin(endpoint.args.mode, endpoint.args.mission_state,
                 endpoint.args.home_position)

EndpointPlanRaises ==
    /\ endpoint.pc = "planning"
    /\ last = NoLast
    /\ PlanRaises(endpoint.args.mode, endpoint.args.mission_state)

\* the handler from the return of agent.plan to its own return
EndpointRespond ==
    /\ endpoint.pc = "planning"
    /\ pc = "idle"
    /\ last.op = "plan"
    /\ endpoint' = [endpoint EXCEPT !.pc = "responded", !.response = ResultResponse(last)]
    /\ UNCHANGED sessionVars
    /\ UNCHANGED codecVars
    /\ UNCHANGED serverVars
    /\ UNCHANGED snapshotVars
    /\ UNCHANGED <<gcs>>

NextEndpoint ==
    \/ AnyEndpointReceive
    \/ EndpointPlanBegin
    \/ EndpointPlanRaises
    \/ SessionMoveItem
    \/ SessionAddRTL
    \/ AnyTurnEnd
    \/ EndpointRespond

SpecEndpoint == InitEndpoint /\ [][NextEndpoint]_vars

(***************************************************************************)
(* gcs_tool/gcs_server.py: the telemetry thread of MAVLinkConnection and   *)
(* the /api/plan proxy of GCSServer, which run concurrently and share      *)
(* MAVLinkConnection.home_position.  A thread's step is one read or one    *)
(* write of the shared attribute.                                          *)
(***************************************************************************)
MaxHomeMessages == 3   \* HOME_POSITION messages the vehicle sends

\* the k-th HOME_POSITION message (degrees * 1e7, millimetres)
HomeMsg(k) ==
    [type |-> "HOME_POSITION", latitude |-> k * 10000000,
     longitude |-> (10 + k) * 10000000, altitude |-> (20 + k) * 1000]

\* the dict _handle_message builds from a HOME_POSITION message
HomeDict(msg) ==
    [latitude |-> msg.latitude \div 10000000,
     longitude |-> msg.longitude \div 10000000,
     altitude |-> msg.altitude \div 1000]

\* the home_position a browser may put in its request
ClientHomes == {None, Some([latitude |-> 0, longitude |-> 0, altitude |-> 0])}

\* a proxy that keeps the home_position the client supplied
ForwardHomeKeepsClient(seen, client, shared) == IF IsNone(client) THEN shared ELSE client

\* "if self.mavlink and self.mavlink.home_position:
\*      data['home_position'] = self.mavlink.home_position"
\* seen is the outcome of the test, shared the attribute as the assignment reads it
ForwardHome(seen, client, shared) == IF seen THEN shared ELSE client

InitGcs ==
    /\ current_mode = "none"
    /\ chat_history = <<>>
    /\ tools = "none"
    /\ mission_manager = NoManager
    /\ cfg \in {c \in Configs : c.auto_fix_positioning /\ c.auto_add_missing_rtl}
    /\ pc = "idle"
    /\ call = NoCall
    /\ last = NoLast
    /\ InitIdleCodec
    /\ InitIdleServer
    /\ InitIdleSnapshot
    /\ endpoint = NoEndpoint
    /\ \E mavlink \in BOOLEAN :
          gcs = [pc |-> "serving", mavlink |-> mavlink,
                 \* MAVLinkConnection: home_position, armed
                 home_position |-> None, armed |-> FALSE,
                 \* the telemetry thread: its position, the dict it has built,
                 \* the messages it has received and the dicts it has stored
                 tpc |-> "recv", built |-> None, received |-> 0, stored |-> 0,
                 \* the request thread: its position, the client's value, data,
                 \* the outcome of the test, what had been stored at the test,
                 \* and what was forwarded with which answer
                 rpc |-> "idle", client |-> None, data |-> None, seen |-> FALSE,
                 stored_at_test |-> 0, forwarded |-> None, status |-> 0]

\* _handle_message, HOME_POSITION: the dict is built from the message
TelemetryHomePosition ==
    /\ gcs.pc = "serving" /\ gcs.mavlink
    /\ gcs.tpc = "recv"
    /\ gcs.received < MaxHomeMessages
    /\ gcs' = [gcs EXCEPT !.tpc = "built", !.received = @ + 1,
                          !.built = Some(HomeDict(HomeMsg(gcs.received + 1)))]
    /\ UNCHANGED sessionVars
    /\ UNCHANGED codecVars
    /\ UNCHANGED serverVars
    /\ UNCHANGED snapshotVars
    /\ UNCHANGED <<endpoint>>

\* "self.home_position = {...}", then _broadcast_telemetry
TelemetryStoreHome ==
    /\ gcs.pc = "serving"
    /\ gcs.tpc = "built"
    /\ gcs' = [gcs EXCEPT !.tpc = "recv", !.home_position = gcs.built,
                          !.built = None, !.stored = @ + 1]
    /\ UNCHANGED sessionVars
    /\ UNCHANGED codecVars
    /\ UNCHANGED serverVars
    /\ UNCHANGED snapshotVars
    /\ UNCHANGED <<endpoint>>

\* _handle_message, HEARTBEAT
TelemetryHeartbeat(armed) ==
    /\ gcs.pc = "serving" /\ gcs.mavlink
    /\ gcs.tpc = "recv"
    /\ gcs' = [gcs EXCEPT !.armed = armed]
    /\ UNCHANGED sessionVars
    /\ UNCHANGED codecVars
    /\ UNCHANGED serverVars
    /\ UNCHANGED snapshotVars
    /\ UNCHANGED <<endpoint>>

\* plan: data = request.get_json()
GcsGetJson(client) ==
    /\ gcs.pc = "serving"
    /\ gcs.rpc \in {"idle", "done"}
    /\ gcs' = [gcs EXCEPT !.rpc = "got", !.client = client, !.data = client,
                          !.seen = FALSE, !.stored_at_test = 0,
                          !.forwarded = None, !.status = 0]
    /\ UNCHANGED sessionVars
    /\ UNCHANGED codecVars
    /\ UNCHANGED serverVars
    /\ UNCHANGED snapshotVars
    /\ UNCHANGED <<endpoint>>

\* plan: "if self.mavlink and self.mavlink.home_position"
GcsTestHome ==
    /\ gcs.pc = "serving"
    /\ gcs.rpc = "got"
    /\ gcs' = [gcs EXCEPT !.rpc = "tested",
                          !.seen = gcs.mavlink /\ ~IsNone(gcs.home_position),
                          !.stored_at_test = gcs.stored]
    /\ UNCHANGED sessionVars
    /\ UNCHANGED codecVars
    /\ UNCHANGED serverVars
    /\ UNCHANGED snapshotVars
    /\ UNCHANGED <<endpoint>>

\* plan: "data['home_position'] = self.mavlink.home_position" (when the test held)
GcsSetHome ==
    /\ gcs.pc = "serving"
    /\ gcs.rpc = "tested"
    /\ gcs' = [gcs EXCEPT !.rpc = "set",
                          !.data = ForwardHome(gcs.seen, gcs.client, gcs.home_position)]
    /\ UNCHANGED sessionVars
    /\ UNCHANGED codecVars
    /\ UNCHANGED serverVars
    /\ UNCHANGED snapshotVars
    /\ UNCHANGED <<endpoint>>

\* plan: requests.post(..., json=data) and the return: the LLM server's
\* status code, 503 on a ConnectionError
GcsForward(status) ==
    /\ gcs.pc = "serving"
    /\ gcs.rpc = "set"
    /\ gcs' = [gcs EXCEPT !.rpc = "done", !.status = status,
                          !.forwarded = IF status = 503 THEN None ELSE gcs.data]
    /\ UNCHANGED sessionVars
    /\ UNCHANGED codecVars
    /\ UNCHANGED serverVars
    /\ UNCHANGED snapshotVars
    /\ UNCHANGED <<endpoint>>

NextGcs ==
    \/ TelemetryHomePosition
    \/ TelemetryStoreHome
    \/ \E armed \in BOOLEAN : TelemetryHeartbeat(armed)
    \/ \E client \in ClientHomes : GcsGetJson(client)
    \/ GcsTestHome
    \/ GcsSetHome
    \/ \E status \in {200, 400, 503} : GcsForward(status)

SpecGcs == InitGcs /\ [][NextGcs]_vars

(***************************************************************************)
(* Properties of the tool handlers (checked under SpecTools)               *)
(***************************************************************************)
ValidationFailed == "Planning Error: "
Committed == {"Moved mission item", "Return to Launch command added to mission"}

\* C1: atomicity.  A handler call whose validation reports the mission invalid
\* returns with the item list as it was before the call: same length, same
\* order, every field of every item at its pre-call value.
C1_Atomicity ==
    [][(pc = "turn" /\ pc' = "turn" /\ last'.text = ValidationFailed)
          => mission_manager'.items = mission_manager.items]_vars

\* C1: a move_item call has been rolled back
C1_RolledBackMove ==
    /\ last.op = "move_item"
    /\ last.text = ValidationFailed
    /\ mission_manager.items # <<>>

StrictOK(items) ==
    LET T == TakeoffIdx(items)
        E == EndIdx(items)
    IN /\ Cardinality(T) <= 1
       /\ T # {} => 1 \in T
       /\ Cardinality(E) <= 1
       /\ E # {} => Len(items) \in E

Contiguous(items) == \A i \in DOMAIN items : items[i].seq = i - 1

C10_AlwaysReturnsString == last.op # "none" => last.kind = "str"

\* C10: add_rtl was called with no live mission, the manager raised, and the
\* handler returned its error text
C10_ManagerRaisedInAddRtl ==
    /\ last.op = "add_rtl"
    /\ ~mission_manager.has
    /\ last.kind = "str"
    /\ last.text = "Error: "

(***************************************************************************)
(* Properties of the wire codec (checked under SpecCodec)                  *)
(***************************************************************************)
RoundTripTypes == {"takeoff", "waypoint", "loiter", "rtl", "land"}

\* C4: wire round trip of the command type.  For every mission whose items
\* have a command_type among takeoff, waypoint, loiter, rtl and land, decoding
\* the encoded mission gives the same command_type at each position, and the
\* decoding table is the exact inverse of the encoding table on those types.
C4_CommandTypeRoundTrip ==
    /\ \A t \in RoundTripTypes :
          MAVLINK_TO_COMMAND_TYPE[COMMAND_TYPE_TO_MAVLINK[t]] = t
    /\ cpc = "roundtrip" =>
          /\ Len(dmission) = Len(cmission)
          /\ \A i \in DOMAIN cmission :
                In(cmission[i].command_type, RoundTripTypes)
                   => dmission[i].command_type = cmission[i].command_type

\* C4: a mission holding a waypoint has gone through the round trip
C4_WaypointRoundTripped ==
    /\ cpc = "roundtrip"
    /\ \E i \in DOMAIN cmission : cmission[i].command_type = Some("waypoint")

\* the integer n is the real r / CoordSub cut to an integer toward zero
IsScaledInteger(n, r) ==
    /\ Abs(n * CoordSub - r) < CoordSub
    /\ Abs(n * CoordSub) <= Abs(r)

\* C5: wire round trip of coordinates.  For every item with resolved latitude
\* and longitude, of either sign, x and y are the integers of the coordinate
\* scaled to wire units, and the decoded latitude and longitude are within one
\* wire unit (1e-7 degree) of the originals.
C5_CoordinateRoundTrip ==
    /\ cpc \in {"encoded", "roundtrip"} =>
          \A i \in DOMAIN cmission :
             HasLatLon(cmission[i]) =>
                /\ IsScaledInteger(wire[i].x, Val(cmission[i].latitude))
                /\ IsScaledInteger(wire[i].y, Val(cmission[i].longitude))
    /\ cpc = "roundtrip" =>
          \A i \in DOMAIN cmission :
             HasLatLon(cmission[i]) =>
                /\ HasLatLon(dmission[i])
                /\ Abs(Val(dmission[i].latitude) - Val(cmission[i].latitude)) < CoordSub
                /\ Abs(Val(dmission[i].longitude) - Val(cmission[i].longitude)) < CoordSub

\* C5: an item at a negative latitude and a positive longitude that are not
\* whole wire units has gone through the round trip
C5_FractionalCoordinatesRoundTripped ==
    /\ cpc = "roundtrip"
    /\ \E i \in DOMAIN cmission :
          /\ HasLatLon(cmission[i])
          /\ Val(cmission[i].latitude) < 0
          /\ Val(cmission[i].longitude) > 0
          /\ Val(cmission[i].latitude) % CoordSub # 0
          /\ dmission[i].latitude # cmission[i].latitude

HasAltitude(item) == ~IsNone(item.altitude) /\ ~IsNone(item.altitude_units)

\* C6: wire round trip of the altitude.  For every item with an altitude and
\* altitude_units, the decoded altitude is the original altitude expressed in
\* meters and the decoded altitude_units is 'meters'.
C6_AltitudeRoundTrip ==
    cpc = "roundtrip" =>
       \A i \in DOMAIN cmission :
          HasAltitude(cmission[i]) =>
             /\ dmission[i].altitude =
                   Some(convert_to_meters(Val(cmission[i].altitude),
                                          Val(cmission[i].altitude_units)))
             /\ dmission[i].altitude_units = Some("meters")

\* C6: an item whose altitude is in feet has gone through the round trip and
\* its decoded altitude is another number
C6_FeetRoundTripped ==
    /\ cpc = "roundtrip"
    /\ \E i \in DOMAIN cmission :
          /\ cmission[i].altitude_units = Some("feet")
          /\ ~IsNone(cmission[i].altitude)
          /\ dmission[i].altitude # cmission[i].altitude

\* C7: an incoming command code that is not a value of the command table
\* decodes to command_type 'waypoint', and the list decodes item for item.
C7_UnknownCommandIsWaypoint ==
    cpc = "decoded" =>
       /\ Len(dmission) = Len(wire)
       /\ \A i \in DOMAIN wire :
             wire[i].command \notin Range(COMMAND_TYPE_TO_MAVLINK)
                => dmission[i].command_type = Some("waypoint")

\* C7: a received list holding the codes 18 and 201 has been decoded
C7_UnknownCodesDecoded ==
    /\ cpc = "decoded"
    /\ \E i, j \in DOMAIN wire :
          /\ wire[i].command = MAV_CMD_NAV_LOITER_TURNS
          /\ wire[j].command = MAV_CMD_DO_SET_ROI

(***************************************************************************)
(* Properties of the request protocol (checked under Spec)                 *)
(***************************************************************************)
\* C2: in mission mode the mission is reused across turns.  When a plan()
\* request with mode 'mission' and a mission_state starts its turn, the mission
\* the tool handlers see has exactly the items of the supplied mission_state,
\* whatever current_mode was at request entry.
C2_MissionStateReused ==
    [][(pc = "idle" /\ pc' = "turn" /\ call'.api = "plan" /\ call'.mode = "mission"
        /\ ~IsNone(call'.mission_state))
          => (/\ mission_manager'.has
              /\ mission_manager'.items = Val(call'.mission_state))]_vars

\* C2: a plan() request in mission mode that supplied a mission_state with
\* items is in its turn, and it entered with current_mode unset
C2_MissionStateTurn ==
    /\ pc = "turn"
    /\ call.api = "plan"
    /\ call.mode = "mission"
    /\ ~IsNone(call.mission_state)
    /\ Val(call.mission_state) # <<>>
    /\ call.original_mode = "none"

\* the session is as the entry record e has it: live mission, validation mode
\* (when a manager existed), current mode, chat history
SessionIs(e, mgr, cm, ch) ==
    /\ mgr.has = e.has
    /\ mgr.items = e.items
    /\ e.exists => mgr.mode = e.mode
    /\ cm = e.current_mode
    /\ ch = e.chat_history

\* C3: stateless request restore.  After plan() returns or raises, for either
\* mode and any outcome, the live mission (the same items with the same field
\* values), the mode under which the manager validates, the agent's current
\* mode and the chat history are what they were before the call.
C3_StatelessRestore ==
    [][/\ (call.api = "plan" /\ call'.api = "none")
            => SessionIs(call.entry, mission_manager', current_mode', chat_history')
       /\ (pc = "idle" /\ pc' = "idle" /\ last'.op = "plan")
            => SessionIs(EntryOf(mission_manager, current_mode, chat_history),
                         mission_manager', current_mode', chat_history')]_vars

\* C3: a plan() request has returned and the session holds a mission with items
C3_PlanReturned ==
    /\ pc = "idle"
    /\ last.op = "plan"
    /\ last.kind = "return"
    /\ mission_manager.has
    /\ mission_manager.items # <<>>

(***************************************************************************)
(* Properties of one handler call (checked under SpecCall)                 *)
(***************************************************************************)
\* the returned texts that begin with 'Error' or 'Planning Error'
ErrorTexts ==
    {"Error: ", "Error: No mission items to move", "Error: Invalid sequence number",
     "Error: Cannot modify GPS coordinates", "Error: Cannot modify MGRS coordinates",
     "Error: Cannot use 'origin' reference", "Error: Cannot find reference point",
     "Error: Cannot determine origin", "Error: Failed to calculate new position",
     "Error: Cannot modify position", "Error: Cannot modify heading", "Planning Error: "}

\* C11: failures are distinguishable from successes by prefix.  Every string
\* returned for a call that did not commit an edit begins with 'Error' or
\* 'Planning Error', and every string returned for a committed edit begins with
\* neither.
C11_FailurePrefix ==
    last.op # "none" =>
       /\ last.kind = "str"
       /\ last.text \in Committed => last.text \notin ErrorTexts
       /\ last.text \notin Committed => last.text \in ErrorTexts

\* C11: move_item was called on an item of the mission with no position
\* argument at all, and nothing was edited
C11_NoPositionArgument ==
    /\ last.op = "move_item"
    /\ last.args.seq \in 1..Len(last.before)
    /\ last.args.coordinates = NoCoords
    /\ IsNone(last.args.mgrs)
    /\ last.args.distance = NoArg
    /\ IsNone(last.args.heading)
    /\ mission_manager.items = last.before

\* C12: parse failures surface as errors.  When the coordinate text given to
\* move_item could not be parsed, the handler returns a string beginning
\* 'Error:' and applies no edit to the mission, whatever other position
\* arguments the call supplies.
C12_UnparsedCoordinatesError ==
    (last.op = "move_item" /\ last.args.coordinates = RawCoords) =>
       /\ last.kind = "str"
       /\ last.text \in ErrorTexts \ {"Planning Error: "}
       /\ mission_manager.items = last.before

\* C12: move_item was given coordinate text that could not be parsed together
\* with an MGRS string, for an item that can be positioned
C12_UnparsedCoordinatesWithMgrs ==
    /\ last.op = "move_item"
    /\ last.args.coordinates = RawCoords
    /\ ~IsNone(last.args.mgrs)
    /\ last.args.seq \in 1..Len(last.before)
    /\ supports_position(last.before[last.args.seq])

\* the call asks for a relative move (distance and heading given)
AsksRelative(args) == args.distance.kind # "none" /\ ~IsNone(args.heading)

\* the reference point of the call's frame cannot be found among items
ReferenceNotFound(items, args) ==
    /\ IsNone(get_origin_coordinates(items).lat)
    /\ \/ args.relative_reference_frame \in {None, Some("origin")}
       \/ /\ args.relative_reference_frame = Some("last_waypoint")
          /\ IsNone(find_last_waypoint_coordinates(items, args.seq - 1).lat)

\* C13: resolution impossibility is rolled back.  When move_item is asked for a
\* relative move whose reference point cannot be found, it returns an error
\* string and every item of the mission has its pre-call field values, also
\* when coordinates or an MGRS string were supplied in the same call.
C13_NoReferenceRolledBack ==
    (/\ last.op = "move_item"
     /\ last.args.seq \in 1..Len(last.before)
     /\ AsksRelative(last.args)
     /\ ReferenceNotFound(last.before, last.args)) =>
       /\ last.text \in ErrorTexts
       /\ mission_manager.items = last.before

\* C13: a relative move from 'origin' was asked for a positionable item of a
\* mission with no takeoff coordinates, together with absolute coordinates
C13_NoOriginWithCoordinates ==
    /\ last.op = "move_item"
    /\ last.args.seq \in 1..Len(last.before)
    /\ supports_position(last.before[last.args.seq])
    /\ AsksRelative(last.args)
    /\ last.args.relative_reference_frame = Some("origin")
    /\ ReferenceNotFound(last.before, last.args)
    /\ last.args.coordinates.kind = "tuple"
    /\ last.text = "Error: Cannot use 'origin' reference"

\* the position a 'self' move must give: the offset applied to the target
\* item's coordinates as they were before the call
SelfMoveFrom(before, args) ==
    LET dm == unpack_measurement(args.distance) IN
    calculate_absolute_coordinates(before[args.seq].latitude, before[args.seq].longitude,
                                   dm, Val(args.heading), dm.units)

SelfMoveCommitted ==
    /\ last.op = "move_item"
    /\ last.text = "Moved mission item"
    /\ last.args.seq \in 1..Len(last.before)
    /\ HasLatLon(last.before[last.args.seq])
    /\ AsksRelative(last.args)
    /\ last.args.relative_reference_frame = Some("self")

\* C14: with relative_reference_frame 'self' the reference point of the offset
\* is the target item's latitude and longitude as they were before the call,
\* for every combination of arguments: the moved item ends at that offset.
C14_SelfUsesPriorPosition ==
    SelfMoveCommitted =>
       \E i \in DOMAIN mission_manager.items :
          /\ mission_manager.items[i].command_type
                = last.before[last.args.seq].command_type
          /\ mission_manager.items[i].latitude = SelfMoveFrom(last.before, last.args).lat
          /\ mission_manager.items[i].longitude = SelfMoveFrom(last.before, last.args).lon

\* C14: a committed 'self' move whose call also supplied absolute coordinates
C14_SelfMoveWithCoordinates ==
    /\ SelfMoveCommitted
    /\ last.args.coordinates.kind = "tuple"

\* the position (latitude, longitude, mgrs) each form the call supplies gives
\* when it alone is applied to the target item of the mission before the call
FormResults(before, args) ==
    LET co == unpack_coordinates(args.coordinates)
        dm == unpack_measurement(args.distance)
        ref == ReferencePoint(before, before[args.seq], args.seq,
                              args.relative_reference_frame)
        rel == calculate_absolute_coordinates(ref.lat, ref.lon, dm,
                                              Val(args.heading), dm.units)
    IN (IF args.coordinates.kind = "tuple"
        THEN {[latitude |-> co.latitude, longitude |-> co.longitude, mgrs |-> None]}
        ELSE {})
       \cup (IF ~IsNone(args.mgrs)
             THEN {[latitude |-> None, longitude |-> None, mgrs |-> args.mgrs]}
             ELSE {})
       \cup (IF AsksRelative(args) /\ IsNone(ref.err)
             THEN {[latitude |-> rel.lat, longitude |-> rel.lon, mgrs |-> None]}
             ELSE {})

FormsSupplied(args) ==
    (IF args.coordinates.kind = "tuple" THEN 1 ELSE 0)
    + (IF ~IsNone(args.mgrs) THEN 1 ELSE 0)
    + (IF AsksRelative(args) THEN 1 ELSE 0)

SeveralFormsCommitted ==
    /\ last.op = "move_item"
    /\ last.text = "Moved mission item"
    /\ last.args.seq \in 1..Len(last.before)
    /\ FormsSupplied(last.args) > 1

\* C15: a move_item call resolves the item's new position through exactly one
\* of the three forms.  When a call supplies more than one form, the position
\* the item ends with is what one of the supplied forms, applied alone to the
\* item as it was before the call, gives.
C15_ExactlyOneForm ==
    SeveralFormsCommitted =>
       \E i \in DOMAIN mission_manager.items :
          /\ mission_manager.items[i].command_type
                = last.before[last.args.seq].command_type
          /\ [latitude |-> mission_manager.items[i].latitude,
              longitude |-> mission_manager.items[i].longitude,
              mgrs |-> mission_manager.items[i].mgrs]
                \in FormResults(last.before, last.args)

\* C15: a committed call that supplied all three forms
C15_ThreeFormsCommitted ==
    /\ SeveralFormsCommitted
    /\ FormsSupplied(last.args) = 3

PositionedTypes == {"waypoint", "loiter", "survey"}

\* C16: after a committed tool invocation every waypoint, loiter or survey item
\* of the mission has both latitude and longitude; none is left holding only
\* an MGRS string or only a distance and heading.
C16_ResolvedAtRest ==
    last.text \in Committed =>
       \A i \in DOMAIN mission_manager.items :
          In(mission_manager.items[i].command_type, PositionedTypes)
             => HasLatLon(mission_manager.items[i])

\* C16: a committed move_item that was given an MGRS string
C16_MgrsMoveCommitted ==
    /\ last.op = "move_item"
    /\ last.text = "Moved mission item"
    /\ ~IsNone(last.args.mgrs)

AddRtlCommitted ==
    /\ last.op = "add_rtl"
    /\ last.text = "Return to Launch command added to mission"

NewItemLastAndReported ==
    /\ Len(mission_manager.items) = Len(last.before) + 1
    /\ mission_manager.items[Len(mission_manager.items)].command_type = Some("rtl")
    /\ \A i \in 1..Len(last.before) :
          mission_manager.items[Len(mission_manager.items)] # last.before[i]
    /\ last.reported
          = Some(mission_manager.items[Len(mission_manager.items)].seq + 1)

PriorItemsKept ==
    \A i \in 1..Len(last.before) : mission_manager.items[i] = last.before[i]

\* C17 (as stated): after a committed add_rtl the new rtl item is the last
\* item of the mission, every item that was in the mission before the call
\* keeps its position and its seq, and the item number the confirmation
\* reports is the new item's seq plus one.
C17_AppendsLast_Original ==
    AddRtlCommitted => NewItemLastAndReported /\ PriorItemsKept

\* C17 (amended): after a committed add_rtl the new rtl item is the last item
\* and the reported item number is its seq plus one; every prior item keeps
\* its position and its seq when the validation of the call returned no
\* Auto-fix note, and otherwise the prior items are all still in the mission,
\* before the new item.
C17_AppendsLast ==
    AddRtlCommitted =>
       /\ NewItemLastAndReported
       /\ last.fixes = <<>> => PriorItemsKept
       /\ \A i \in 1..Len(last.before) :
             \E k \in 1..Len(last.before) :
                [mission_manager.items[k] EXCEPT !.seq = 0]
                   = [last.before[i] EXCEPT !.seq = 0]

\* C17: an rtl was added to a mission that already held two items
C17_RtlAddedAfterTwo ==
    /\ AddRtlCommitted
    /\ Len(last.before) = 2
    /\ last.fixes = <<>>

\* C18: whenever a handler's edit is committed and the validation of that call
\* returned Auto-fix messages, the confirmation text contains each of them,
\* for move_item as well as for add_rtl.
C18_AutoFixNotesReported ==
    last.text \in Committed =>
       \A i \in DOMAIN last.fixes :
          \E k \in DOMAIN last.notes : last.notes[k] = last.fixes[i]

\* C18: a committed move_item whose validation returned an Auto-fix message
C18_MoveCommittedWithAutoFix ==
    /\ last.op = "move_item"
    /\ last.text = "Moved mission item"
    /\ last.fixes # <<>>

(***************************************************************************)
(* Properties of the server's requests (checked under SpecServer)          *)
(***************************************************************************)
Between(r) == server.frames[r].pc \in {"saved", "turn"}

BothReturned == \A r \in Requests : server.frames[r].pc = "done"

\* C19: planning requests against one agent do not overlap: no /api/plan
\* request is between its save and its restore while another one is, and
\* after two requests issued together have both returned, the agent's live
\* mission, current mode and chat history are what they were before them.
C19_RequestsDoNotOverlap ==
    /\ \A r1 \in Requests, r2 \in Requests :
          r1 # r2 => ~(Between(r1) /\ Between(r2))
    /\ BothReturned =>
          /\ mission_manager.has = server.entry.has
          /\ mission_manager.items = server.entry.items
          /\ current_mode = server.entry.current_mode
          /\ chat_history = server.entry.chat_history

\* C19: both requests have returned, and the second was saved while the first
\* was being served
C19_BothReturnedAfterOverlap ==
    /\ BothReturned
    /\ \E r \in Requests : server.frames[r].original_mode # "none"

(***************************************************************************)
(* Properties of the tool sets (checked under Spec)                        *)
(***************************************************************************)
AddOperations == {"add_waypoint", "add_takeoff", "add_survey", "add_rtl", "add_loiter"}
EditOperations == {"update_mission_item", "delete_mission_item", "reorder_item", "move_item"}

\* C20: in command mode the tools offered to the agent are exactly the five
\* add operations; update, delete, reorder and move are offered only in
\* mission mode, whose tool set is exactly the nine named operations.
C20_ToolSetPerMode ==
    /\ get_tools_for_mode("command") = AddOperations
    /\ get_tools_for_mode("mission") = AddOperations \cup EditOperations
    /\ Cardinality(get_tools_for_mode("mission")) = 9
    /\ (pc = "turn" /\ call.mode = "command") => OfferedTools = AddOperations
    /\ (pc = "turn" /\ OfferedTools \cap EditOperations # {})
          => /\ call.mode = "mission"
             /\ OfferedTools = AddOperations \cup EditOperations

\* C20: a tool was called in a command mode turn
C20_ToolCalledInCommandTurn ==
    /\ pc = "turn"
    /\ call.mode = "command"
    /\ last.op = "add_rtl"

(***************************************************************************)
(* Properties of the mode handlers (checked under Spec)                    *)
(***************************************************************************)
\* C21: command mode turns do not carry state.  Every command_mode call
\* starts its agent run with a new empty mission and an empty chat history,
\* whatever the agent held before, and after the call returns, whether the
\* agent run succeeded or threw, the manager has no mission and the chat
\* history is empty.
C21_CommandTurnsCarryNoState ==
    [][/\ (pc = "idle" /\ pc' = "turn" /\ call'.mode = "command")
            => /\ mission_manager'.has
               /\ mission_manager'.items = <<>>
               /\ chat_history' = <<>>
       /\ (pc = "turn" /\ call.api = "command_mode" /\ pc' = "idle")
            => /\ ~mission_manager'.has
               /\ chat_history' = <<>>]_vars

\* C21: a command_mode call whose agent run threw has returned
C21_CommandModeThrew ==
    /\ pc = "idle"
    /\ last.op = "command_mode"
    /\ last.text = "raise"
    /\ ~mission_manager.has

SystemPrompts(ch) == Cardinality({i \in DOMAIN ch : ch[i] = "system"})

\* C22: across consecutive mission_mode calls on one agent the mission is
\* created only by the first call.  Each later call starts with exactly the
\* items the previous call left, and the system prompt is put into the chat
\* history once, by the call that created the mission.
C22_MissionPersistsAcrossTurns ==
    [][/\ (pc = "idle" /\ last.op = "mission_mode"
             /\ pc' = "turn" /\ call'.api = "mission_mode")
            => /\ mission_manager'.has
               /\ mission_manager'.items = mission_manager.items
               /\ chat_history' = chat_history
               /\ SystemPrompts(chat_history') = 1
       /\ (pc = "idle" /\ pc' = "turn" /\ call'.api = "mission_mode"
             /\ ~(current_mode = "mission" /\ mission_manager.has))
            => /\ mission_manager'.has
               /\ mission_manager'.items = <<>>
               /\ chat_history' = <<"system">>
       /\ (pc = "turn" /\ call.api = "mission_mode" /\ pc' = "idle")
            => /\ mission_manager' = mission_manager
               /\ SystemPrompts(chat_history') = SystemPrompts(chat_history)]_vars

\* C22: two mission_mode calls in a row have returned, the second having
\* started with the items and the history the first left
C22_SecondMissionTurnReturned ==
    /\ pc = "idle"
    /\ last.op = "mission_mode"
    /\ chat_history = <<"system", "human", "ai", "human", "ai">>
    /\ mission_manager.items # <<>>

(***************************************************************************)
(* Properties of the internal snapshot (checked under SpecSnapshot)        *)
(***************************************************************************)
ItemFields ==
    {"seq", "frame", "command", "current", "command_type", "latitude", "longitude",
     "mgrs", "distance", "heading", "altitude", "radius", "altitude_units",
     "distance_units", "radius_units", "relative_reference_frame", "search_target",
     "detection_behavior"}

\* C23: MissionItem.from_dict(item.to_dict()) equals item on all eighteen
\* fields, for every item, and Mission.from_dict(m.to_dict()) has the same
\* items in the same order and the same created_at and modified_at as m.
C23_SnapshotRoundTrip ==
    /\ Cardinality(ItemFields) = 18
    /\ snap.pc \in {"init", "dict", "restored"} =>
          \A i \in DOMAIN snap.mission.items :
             LET item == snap.mission.items[i]
                 back == MissionItem_from_dict(MissionItem_to_dict(item))
             IN /\ DOMAIN back = ItemFields
                /\ \A f \in ItemFields : back[f] = item[f]
    /\ snap.pc = "restored" =>
          /\ Len(snap.restored.items) = Len(snap.mission.items)
          /\ \A i \in DOMAIN snap.mission.items :
                \A f \in ItemFields : snap.restored.items[i][f] = snap.mission.items[i][f]
          /\ snap.restored.created_at = snap.mission.created_at
          /\ snap.restored.modified_at = snap.mission.modified_at

\* C23: a mission of two items, one of them with search fields, whose
\* timestamps differ and have a fractional part, was read back
C23_RichMissionReadBack ==
    /\ snap.pc = "restored"
    /\ Len(snap.mission.items) = 2
    /\ \E i \in DOMAIN snap.mission.items :
          ~IsNone(snap.mission.items[i].detection_behavior)
    /\ snap.mission.created_at.microsecond # 0
    /\ snap.mission.modified_at # snap.mission.created_at

(***************************************************************************)
(* Properties of plan()'s result (checked under Spec)                      *)
(***************************************************************************)
\* a plan() request that was given a mission_state returns
PlanWithStateReturns ==
    /\ pc = "turn"
    /\ call.api = "plan"
    /\ ~IsNone(call.mission_state)
    /\ pc' = "idle"

\* the mission the request produced: what the manager holds when the graph
\* has returned, before the handler's reset
ProducedItems == IF mission_manager.has THEN mission_manager.items ELSE <<>>

\* C24: the delta fields of plan() describe the request's change.
\* added_items are exactly the items of the resulting mission that were not
\* in the mission the request started from (the supplied mission_state),
\* deleted_items exactly the items of that starting mission absent from the
\* result, and modified_items exactly the items present in both whose fields
\* differ.  Items are identified by seq.
C24_DeltasDescribeChange ==
    [][PlanWithStateReturns =>
          LET start == Range(Val(call.mission_state))
              result == Range(ProducedItems)
              d == last'.result.deltas
          IN /\ d.added_items
                   = {n \in result : \A o \in start : o.seq # n.seq}
             /\ d.deleted_items
                   = {o \in start : \A n \in result : n.seq # o.seq}
             /\ d.modified_items
                   = {n \in result : \E o \in start : o.seq = n.seq /\ o # n}]_vars

\* C24: a plan() request given a mission_state of two items has returned a
\* mission of three
C24_PlanAddedToMissionState ==
    /\ pc = "idle"
    /\ last.op = "plan"
    /\ last.kind = "return"
    /\ Len(last.result.deltas.mission_items) = 3
    /\ Cardinality(last.result.deltas.added_items) > 1

\* C25: plan() reports the mission it produced.  In both modes the
\* mission_items of the result list every item the request's tool calls
\* committed, and validation.valid is the validator's verdict, run with the
\* supplied home_position, on that mission; a command mode request whose
\* tools added items returns those items and their verdict.
C25_ResultReportsMission ==
    [][(pc = "turn" /\ call.api = "plan" /\ pc' = "idle") =>
          /\ last'.result.deltas.mission_items = ProducedItems
          /\ mission_manager.has =>
                last'.result.valid
                   = Validate(mission_manager.items, mission_manager.mode,
                              call.home, cfg).is_valid]_vars

\* C25: the tools of a command mode plan() request have added an item
C25_CommandRequestAddedItem ==
    /\ pc = "turn"
    /\ call.api = "plan"
    /\ call.mode = "command"
    /\ last.op = "add_rtl"
    /\ mission_manager.items # <<>>

(***************************************************************************)
(* Properties of move_item's reference point (checked under SpecCall)      *)
(***************************************************************************)
\* a committed relative move of an item that supports a position, with the
\* reference frame one of frames
RelativeMoveCommitted(frames) ==
    /\ last.op = "move_item"
    /\ last.text = "Moved mission item"
    /\ last.args.seq \in 1..Len(last.before)
    /\ AsksRelative(last.args)
    /\ last.args.relative_reference_frame \in frames

\* the moved item as the mission has it after the call, when the reference
\* point of the move was (ref_lat, ref_lon)
MovedFrom(ref_lat, ref_lon) ==
    LET dm == unpack_measurement(last.args.distance)
        new == calculate_absolute_coordinates(ref_lat, ref_lon, dm,
                                              Val(last.args.heading), dm.units)
        moved == [last.before[last.args.seq] EXCEPT
                     !.latitude = new.lat, !.longitude = new.lon, !.mgrs = None,
                     !.distance = None, !.heading = HNone, !.distance_units = None,
                     !.relative_reference_frame = None]
    IN \E k \in DOMAIN mission_manager.items :
          [mission_manager.items[k] EXCEPT !.seq = 0] = [moved EXCEPT !.seq = 0]

\* the first takeoff item of the list, in list order
FirstTakeoff(items) ==
    LET T == {j \in DOMAIN items : items[j].command_type = Some("takeoff")}
    IN items[CHOOSE j \in T : \A k \in T : j <= k]

HasTakeoff(items) == \E j \in DOMAIN items : items[j].command_type = Some("takeoff")

\* the items before the target (zero-based index below the target's) that are
\* a waypoint, takeoff, loiter or survey with latitude and longitude
PriorPositioned(items, seq) ==
    {j \in 1..(seq - 1) :
        /\ In(items[j].command_type, {"waypoint", "takeoff", "loiter", "survey"})
        /\ ~IsNone(items[j].latitude)
        /\ ~IsNone(items[j].longitude)}

\* C26: in move_item with relative_reference_frame 'last_waypoint' and the
\* target at zero-based index i, the reference point is the coordinates of
\* the item with the greatest index j < i that is a waypoint, takeoff, loiter
\* or survey with latitude and longitude; items at index i and above are not
\* scanned; if there is no such item the reference is the mission origin.
C26_LastWaypointReference ==
    RelativeMoveCommitted({Some("last_waypoint")}) =>
       LET P == PriorPositioned(last.before, last.args.seq) IN
       IF P # {}
       THEN LET j == CHOOSE j \in P : \A k \in P : k <= j
            IN MovedFrom(last.before[j].latitude, last.before[j].longitude)
       ELSE /\ HasTakeoff(last.before)
            /\ MovedFrom(FirstTakeoff(last.before).latitude,
                         FirstTakeoff(last.before).longitude)

\* C26: a committed 'last_waypoint' move of the third item, whose nearest
\* prior positioned item is not the first item of the mission
C26_LastWaypointMoveOfThird ==
    /\ RelativeMoveCommitted({Some("last_waypoint")})
    /\ last.args.seq = 3
    /\ PriorPositioned(last.before, 3) = {1, 2}
    /\ last.before[2].latitude # last.before[1].latitude

PositionMoveCommitted ==
    /\ last.op = "move_item"
    /\ last.text = "Moved mission item"
    /\ last.args.seq \in 1..Len(last.before)
    /\ In(last.before[last.args.seq].command_type, PositionedTypes)
    /\ FormsSupplied(last.args) > 0

\* the items of the mission that are not an untouched item of the mission
\* before the call: the moved item
MovedItems ==
    {[mission_manager.items[k] EXCEPT !.seq = 0] : k \in DOMAIN mission_manager.items}
    \ {[last.before[j] EXCEPT !.seq = 0] : j \in DOMAIN last.before \ {last.args.seq}}

OneRepresentation(item) ==
    /\ (~IsNone(item.latitude) \/ ~IsNone(item.longitude))
          => /\ IsNone(item.mgrs)
             /\ IsNone(item.distance)
             /\ IsNone(item.distance_units)
             /\ IsNone(item.relative_reference_frame)
    /\ ~IsNone(item.mgrs)
          => /\ IsNone(item.latitude)
             /\ IsNone(item.longitude)
             /\ IsNone(item.distance)
             /\ IsNone(item.distance_units)
             /\ IsNone(item.relative_reference_frame)

\* C28: after a committed move_item that set a position the item stores
\* exactly one geometry representation.  With latitude/longitude stored,
\* mgrs, distance, distance_units and relative_reference_frame are absent;
\* with mgrs stored, latitude, longitude, distance, distance_units and
\* relative_reference_frame are absent.  This holds for each input form and
\* whatever geometry fields the item held before the call.
C28_OneGeometryAtRest ==
    PositionMoveCommitted => \A item \in MovedItems : OneRepresentation(item)

\* C28: a committed move of an item that held a distance with its units
C28_MovedItemHeldDistance ==
    /\ PositionMoveCommitted
    /\ ~IsNone(last.before[last.args.seq].distance_units)
    /\ last.args.coordinates.kind = "tuple"

\* a step of the session is a committed move_item call with these arguments
\* and relative_reference_frame 'self'
SelfMoveStep(seq, coordinates, mgrs, distance, heading) ==
    /\ MoveItem(seq, coordinates, mgrs, distance, heading, Some("self"))
    /\ last'.text = "Moved mission item"

\* after the step the mission holds item seq displaced from the latitude and
\* longitude the mission stored for it before the step
CompoundedFromStored(seq, distance, heading) ==
    LET dm == unpack_measurement(distance)
        stored == mission_manager.items[seq]
        new == calculate_absolute_coordinates(stored.latitude, stored.longitude, dm,
                                              Val(heading), dm.units)
        moved == [stored EXCEPT
                     !.latitude = new.lat, !.longitude = new.lon, !.mgrs = None,
                     !.distance = None, !.heading = HNone, !.distance_units = None,
                     !.relative_reference_frame = None]
    IN \E k \in DOMAIN mission_manager'.items :
          [mission_manager'.items[k] EXCEPT !.seq = 0] = [moved EXCEPT !.seq = 0]

\* C29: repeated 'self'-relative moves compound from the latest resolved
\* position.  In a sequence of committed move_item calls on the same item
\* with relative_reference_frame 'self', the reference point of each call is
\* the latitude/longitude the previous committed call stored, never the
\* position the item had when it was first added.
C29_SelfMovesCompound ==
    [][\A seq \in 1..MaxItems, coordinates \in {NoCoords, ParsedCoords(2, 2)},
          mgrs \in MgrsArgs :
          SelfMoveStep(seq, coordinates, mgrs, Parsed(10000, "meters"), Some("north"))
             => CompoundedFromStored(seq, Parsed(10000, "meters"), Some("north"))]_vars

\* C29: a waypoint added at (1, 1) stands at (3, 1) after a second committed
\* 'self' move to the north
C29_MovedTwiceFromSelf ==
    /\ last.op = "move_item"
    /\ last.text = "Moved mission item"
    /\ \E k \in DOMAIN mission_manager.items :
          /\ mission_manager.items[k].command_type = Some("waypoint")
          /\ mission_manager.items[k].latitude = Some(3)
          /\ mission_manager.items[k].longitude = Some(1)

\* the heading as a number where it is one, 0.0 where it is text or absent
NumericHeading(item) == IF item.heading.k = "num" THEN item.heading.n ELSE 0

\* the wire item has the parameter layout of the item's type
PackedAsType(item, mav) ==
    /\ mav.frame = 6
    /\ mav.autocontinue = 1
    /\ mav.seq = item.seq
    /\ mav.current = item.current
    /\ item.command_type = Some("takeoff") => mav.param4 = NumericHeading(item)
    /\ (item.command_type = Some("loiter") /\ ~IsNone(item.radius)
           /\ ~IsNone(item.radius_units))
          => mav.param3 = convert_to_meters(Val(item.radius), Val(item.radius_units))
    /\ In(item.command_type, {"waypoint", "survey"})
          => /\ mav.param1 = 0
             /\ mav.param2 = 20000
             /\ mav.param3 = 0
             /\ mav.param4 = NumericHeading(item)

\* the decoded item has read the slots of its type
UnpackedAsType(mav, item) ==
    /\ In(item.command_type, {"takeoff", "waypoint", "survey"})
          => item.heading = HNum(mav.param4)
    /\ item.command_type = Some("loiter")
          => item.radius = Some(mav.param3) /\ item.radius_units = Some("meters")

\* the round trip keeps seq, current, a numeric heading of the types that
\* pack one, and a loiter's radius in meters
PayloadKept(item, back) ==
    /\ back.seq = item.seq
    /\ back.current = item.current
    /\ (In(item.command_type, {"takeoff", "waypoint", "survey"})
           /\ item.heading.k = "num")
          => back.heading = item.heading
    /\ (item.command_type = Some("loiter") /\ ~IsNone(item.radius)
           /\ ~IsNone(item.radius_units))
          => /\ back.radius_units = Some("meters")
             /\ back.radius = Some(convert_to_meters(Val(item.radius),
                                                     Val(item.radius_units)))

\* C30: per-type wire parameter packing and its reversal.  Encoding a takeoff
\* puts a numeric heading in param4 (0.0 for a text heading); a loiter puts
\* the radius converted to meters in param3; a waypoint or survey sets
\* param1 = 0.0, param2 = 2.0, param3 = 0.0 and a numeric heading in param4;
\* every encoded item has frame 6 and autocontinue 1 and keeps seq and
\* current.  Decoding reads heading from param4 for takeoff/waypoint/survey
\* and radius (units 'meters') from param3 for loiter, so decode(encode(item))
\* keeps seq, current, a numeric heading and the radius in meters.
C30_ParameterPacking ==
    /\ cpc \in {"encoded", "roundtrip"}
          => \A i \in DOMAIN cmission : PackedAsType(cmission[i], wire[i])
    /\ cpc \in {"roundtrip", "decoded"}
          => \A i \in DOMAIN wire : UnpackedAsType(wire[i], dmission[i])
    /\ cpc = "roundtrip"
          => \A i \in DOMAIN cmission : PayloadKept(cmission[i], dmission[i])

\* C30: a mission of a waypoint with a numeric heading (the current item) and
\* a loiter with a radius in feet has been encoded and decoded
C30_HeadingAndRadiusRoundTripped ==
    /\ cpc = "roundtrip"
    /\ Len(cmission) = 2
    /\ cmission[1].command_type = Some("waypoint")
    /\ cmission[1].heading = HNum(90)
    /\ cmission[1].current = 1
    /\ cmission[2].command_type = Some("loiter")
    /\ cmission[2].radius_units = Some("feet")

\* the call is one move_item has to reject: no mission or an empty one, a
\* sequence number outside 1..len(items), or a position aimed at an item that
\* is not a waypoint, loiter or survey
MoveMustBeRejected ==
    /\ last.op = "move_item"
    /\ \/ ~mission_manager.has
       \/ last.before = <<>>
       \/ last.args.seq \notin 1..Len(last.before)
       \/ /\ FormsSupplied(last.args) > 0
          /\ ~In(last.before[last.args.seq].command_type, {"waypoint", "loiter", "survey"})

\* C31: move_item rejects without side effects.  On an absent or empty
\* mission, with a sequence number outside 1..len(items), or with a position
\* (coordinates, MGRS, or distance+heading) aimed at an item whose type is not
\* waypoint, loiter or survey, it returns a string beginning 'Error:' and
\* every item of the mission is unchanged.
C31_RejectsWithoutSideEffects ==
    MoveMustBeRejected =>
       /\ last.kind = "str"
       /\ last.text \in ErrorTexts \ {"Planning Error: "}
       /\ mission_manager.items = last.before

\* C31: an MGRS position together with a relative move was aimed at a takeoff
C31_PositionAimedAtTakeoff ==
    /\ last.op = "move_item"
    /\ last.args.seq \in 1..Len(last.before)
    /\ last.before[last.args.seq].command_type = Some("takeoff")
    /\ ~IsNone(last.args.mgrs)
    /\ AsksRelative(last.args)

(***************************************************************************)
(* Properties of the /api/plan handler (checked under SpecEndpoint)        *)
(***************************************************************************)
\* the request in hand lacks a body or user_input, names a mode that is
\* neither 'mission' nor 'command', or has neither a non-empty mission_state
\* nor a home_position
NoBodyOrInput(req) == req.body # "object" \/ ~req.user_input
BadMode(req) == req.body = "object" /\ req.mode \notin {None, Some("mission"), Some("command")}
NoContext(req) ==
    /\ req.body = "object"
    /\ req.mission_state \in {None, Some(<<>>)}
    /\ IsNone(req.home_position)
Malformed(req) == NoBodyOrInput(req) \/ BadMode(req) \/ NoContext(req)

\* C32: /api/plan never invokes agent.plan for a malformed request.  With no
\* agent it answers 500; with a missing body or no user_input, with a mode
\* other than 'mission'/'command', or with neither a non-empty mission_state
\* nor a home_position it answers 400; a ValueError from planning becomes 400
\* and any other exception 500, so the handler itself never raises.
C32_MalformedRequestsAnswered ==
    endpoint.pc = "responded" =>
       /\ endpoint.response.status \in {200, 400, 500}
       /\ ~endpoint.agent => endpoint.response.status = 500 /\ last.op # "plan"
       /\ (endpoint.agent /\ Malformed(endpoint.request))
             => endpoint.response.status = 400 /\ last.op # "plan"
       /\ (last.op = "plan" /\ last.kind = "raise")
             => endpoint.response.status = (IF last.text = "ValueError" THEN 400 ELSE 500)

\* C32: a request with a JSON content type and no body has been answered
C32_EmptyJsonBodyAnswered ==
    /\ endpoint.pc = "responded"
    /\ endpoint.agent
    /\ endpoint.request.is_json
    /\ endpoint.request.body = "absent"

\* the field names of a MISSION_ITEM_INT dict
WireFields ==
    {"seq", "frame", "command", "current", "autocontinue",
     "param1", "param2", "param3", "param4", "x", "y", "z"}

\* C33: every /api/plan response that carries a mission_items list carries it
\* in wire format only (each element has the fields seq, frame, command,
\* current, autocontinue, param1..param4, x, y, z), and no response carries a
\* mission_state field; for successful and for failed planning results.
C33_MissionItemsInWireFormat ==
    endpoint.pc = "responded" =>
       LET body == endpoint.response.body IN
       /\ "mission_state" \notin DOMAIN body
       /\ "mission_items" \in DOMAIN body
             => \A i \in DOMAIN body.mission_items :
                   DOMAIN body.mission_items[i] = WireFields

\* C33: a planning result that failed (the agent graph raised) on a mission
\* with items has been answered
C33_FailedPlanningAnswered ==
    /\ endpoint.pc = "responded"
    /\ endpoint.response.status = 200
    /\ ~endpoint.response.body.success
    /\ endpoint.response.body.mission_items # <<>>

(***************************************************************************)
(* Properties of the agent's sessions, continued (checked under Spec)      *)
(***************************************************************************)
\* C34: after any sequence of mission_mode, command_mode and plan calls on
\* one agent, whenever a mission-mode turn runs the agent graph, the tool set
\* in use is the one built for mission mode (all nine tools, including
\* update, delete, reorder and move), never the five-tool set built for a
\* command-mode turn.
C34_MissionTurnHasMissionTools ==
    (pc = "turn" /\ call.mode = "mission") =>
       /\ OfferedTools = get_mission_tools
       /\ {"update_mission_item", "delete_mission_item", "reorder_item", "move_item"}
             \subseteq OfferedTools

\* C34: a mission-mode turn runs on an agent that was in mission mode already
\* when the call came in, after earlier calls
C34_MissionTurnWithoutReload ==
    /\ pc = "turn"
    /\ call.mode = "mission"
    /\ call.entry.current_mode = "mission"
    /\ call.api = "mission_mode"

(***************************************************************************)
(* Properties of the /api/plan handler, continued (under SpecEndpoint)     *)
(***************************************************************************)
\* C35: plan() with a valid mode does not fail for lack of a Mission Manager.
\* On a newly constructed agent (no mode selected yet) a first request that
\* supplies a mission_state is processed and returns a result dictionary
\* rather than raising, and its state-restoring cleanup does not raise
\* either.
C35_PlanNeverLacksManager ==
    (endpoint.pc \in {"planning", "responded"} /\ last.op = "plan") =>
       /\ last.kind = "return"
       /\ endpoint.pc = "responded" => endpoint.response.status = 200

\* C35: the first request to a newly constructed agent supplied a
\* mission_state and has been answered
C35_FirstRequestWithMissionState ==
    /\ endpoint.pc = "responded"
    /\ endpoint.agent
    /\ ~IsNone(endpoint.args.mission_state)
    /\ last.op = "plan"
    /\ ~mission_manager.exists

(***************************************************************************)
(* Properties of one handler call, continued (checked under SpecCall)      *)
(***************************************************************************)
\* C36: rollback on exception.  If an exception is raised inside a handler
\* after it has mutated the mission (add_rtl after the RTL item was appended,
\* move_item after a field of the item was written), the handler restores the
\* saved snapshot before returning its 'Error:' string, so an 'Error:' return
\* never leaves an edit in the mission.
C36_ErrorReturnLeavesNoEdit ==
    (last.op \in {"move_item", "add_rtl"} /\ last.text \in ErrorTexts \ {"Planning Error: "})
       => mission_manager.items = last.before

\* C36: calculate_absolute_coordinates raised in a move_item call that had
\* written an MGRS string or coordinates into the item before
C36_RaisedAfterWrite ==
    /\ last.op = "move_item"
    /\ last.text = "Error: Failed to calculate new position"
    /\ FormsSupplied(last.args) > 1

(***************************************************************************)
(* Properties of the wire codec, continued (checked under SpecCodec)       *)
(***************************************************************************)
\* C37: items without position do not round-trip as positionless.  An item
\* whose latitude or longitude is absent is encoded with x = 0 or y = 0 and
\* decodes to latitude/longitude 0.0, an item whose altitude is absent decodes
\* to altitude 0, and every decoded item has a numeric latitude, longitude
\* and altitude, never an absent one.
C37_AbsentPositionDecodesAsZero ==
    /\ cpc \in {"encoded", "roundtrip"} =>
          \A i \in DOMAIN cmission :
             /\ IsNone(cmission[i].latitude) => wire[i].x = 0
             /\ IsNone(cmission[i].longitude) => wire[i].y = 0
    /\ cpc = "roundtrip" =>
          \A i \in DOMAIN cmission :
             /\ IsNone(cmission[i].latitude) => dmission[i].latitude = Some(0)
             /\ IsNone(cmission[i].longitude) => dmission[i].longitude = Some(0)
             /\ IsNone(cmission[i].altitude) => dmission[i].altitude = Some(0)
    /\ cpc \in {"roundtrip", "decoded"} =>
          \A i \in DOMAIN dmission :
             /\ ~IsNone(dmission[i].latitude)
             /\ ~IsNone(dmission[i].longitude)
             /\ ~IsNone(dmission[i].altitude)

\* C37: an rtl item with a longitude and neither latitude nor altitude has
\* gone through the round trip
C37_PositionlessRtlRoundTripped ==
    /\ cpc = "roundtrip"
    /\ \E i \in DOMAIN cmission :
          /\ cmission[i].command_type = Some("rtl")
          /\ IsNone(cmission[i].latitude)
          /\ ~IsNone(cmission[i].longitude)
          /\ IsNone(cmission[i].altitude)

(***************************************************************************)
(* Properties of the GCS server (checked under SpecGcs)                    *)
(***************************************************************************)
\* the complete fixes of the HOME_POSITION messages stored so far
StoredFixes == {Some(HomeDict(HomeMsg(k))) : k \in 1..gcs.stored}

\* C38: under any interleaving of the telemetry thread with a /api/plan
\* request, the home_position forwarded to the LLM server is either the
\* client's own value (when no HOME_POSITION message has been received yet)
\* or a complete fix whose latitude, longitude and altitude all come from a
\* single HOME_POSITION message, replacing any client-supplied value; once a
\* home position has been received it is never reset to absent.
C38_ForwardedHomeIsOneFix ==
    /\ (gcs.rpc = "done" /\ gcs.status # 503) =>
          IF gcs.stored_at_test = 0
          THEN gcs.forwarded = gcs.client
          ELSE gcs.forwarded \in StoredFixes
    /\ gcs.stored > 0 => gcs.home_position \in StoredFixes

\* C38: a request of a client that supplied a home position was forwarded,
\* and a HOME_POSITION message was stored between its test and its forwarding
C38_HomeArrivedDuringRequest ==
    /\ gcs.rpc = "done"
    /\ gcs.status = 200
    /\ ~IsNone(gcs.client)
    /\ gcs.stored_at_test >= 1
    /\ gcs.stored > gcs.stored_at_test

====
